---- MODULE Spec2Model ----
(***************************************************************************)
(* chronos-timeledger: the event-sourced ledger of src/domain.rs.          *)
(*                                                                         *)
(* Specifications: Spec is the ledger with its registry (projects, tasks,  *)
(* the task edit form) and the start_task / stop_task calls; SpecRegistry  *)
(* is the registry alone, with categories; SpecLog is a ledger with two    *)
(* tasks and start_task / stop_task only; SpecManual adds manual sessions  *)
(* to it, SpecRetime the retiming of a row of the day view, SpecDelete the *)
(* deleting of one; SpecSlice is one call of accumulate_session, SpecGap   *)
(* the same call on hosts whose clocks skip one, two or three hours at a   *)
(* midnight; SpecStore is save_ledger and load_ledger on a ledger file,    *)
(* SpecRecent is remember_ledger on the list of recent ledgers.            *)
(*                                                                         *)
(* Time is counted in ticks since 00:00 UTC of day 0; a chrono DateTime    *)
(* is the tick count, a NaiveDate is a day number, a Duration is a tick    *)
(* difference.  The host timezone (chrono::Local) is a rule with at most   *)
(* one change of UTC offset.                                               *)
(***************************************************************************)
EXTENDS Integers, Sequences, FiniteSets, TLC

VARIABLES
    projects,                \* LedgerHeader.projects : Vec<Project>
    categories,              \* LedgerHeader.categories : Vec<Category>
    tasks,                   \* LedgerHeader.tasks : Vec<Task>
    events,                  \* Ledger.events : Vec<TimeEvent>
    day_start_offset_hours,  \* LedgerHeader.day_start_offset_hours
    tz,                      \* the rule behind chrono::Local on this host
    result,                  \* the last operation called and what it returned
    session,                 \* arguments of the accumulate_session call under study
    acc,                     \* what that call visited and added
    file,                    \* the ledger file on disk, as save_ledger writes it
    loaded,                  \* what the last load_ledger returned
    recent                   \* the file recent_ledgers.txt of the state directory

vars == <<projects, categories, tasks, events, day_start_offset_hours, tz,
          result, session, acc, file, loaded, recent>>

registry == <<projects, categories, tasks>>
env == <<day_start_offset_hours, tz>>
probe == <<session, acc>>
store == <<file, loaded, recent>>

----------------------------------------------------------------------------
(* Bounds of the model *)

\* resolution of the clock: ticks in one second (chrono counts nanoseconds)
TicksPerSecond == 2
\* longest event log explored
MaxEvents == 3

----------------------------------------------------------------------------
(* Durations *)

Second == TicksPerSecond
Minute == 60 * Second
Hour == 60 * Minute
Day == 24 * Hour

\* Option::None for an instant, and the panic of local_naive_to_utc_resolved
None == -1
Panic == -2
\* for _ in 0..120
ProbeLimit == 120

Min(S) == CHOOSE x \in S : \A y \in S : x <= y

\* an instant given as day, hour, minute, second and ticks
At(d, h, m, s, t) == d * Day + h * Hour + m * Minute + s * Second + t

----------------------------------------------------------------------------
(* chrono::Local: UTC offset std before the instant trans, dst from it on *)

TzRule(std, dst, trans) == [std |-> std, dst |-> dst, trans |-> trans]

TzUtc == TzRule(0, 0, 0)
\* clocks go 02:00 -> 03:00 local on day 2
TzSpring == TzRule(0, Hour, At(2, 2, 0, 0, 0))
\* clocks go 02:00 -> 01:00 local on day 2
TzFall == TzRule(Hour, 0, At(2, 1, 0, 0, 0))
\* clocks go 00:00 -> 01:00 local on day 2: local midnight does not exist
TzSpringMidnight == TzRule(0, Hour, At(2, 0, 0, 0, 0))
\* clocks go 01:00 -> 00:00 local on day 2: local midnight happens twice
TzFallMidnight == TzRule(Hour, 0, At(2, 0, 0, 0, 0))

TzRules == {TzUtc, TzSpring, TzFall, TzSpringMidnight, TzFallMidnight}

\* clocks go 00:00 -> 02:00 local on day 2, and 00:00 -> 03:00: two and three
\* hours of the day are skipped
TzTwoHourGap == TzRule(0, 2 * Hour, At(2, 0, 0, 0, 0))
TzLongGap == TzRule(0, 3 * Hour, At(2, 0, 0, 0, 0))

\* offset_from_utc_datetime
UtcOffset(z, utc) == IF utc < z.trans THEN z.std ELSE z.dst

\* timestamp.with_timezone(&Local).naive_local()
NaiveLocal(z, utc) == utc + UtcOffset(z, utc)

\* Local.from_local_datetime: the instants whose local reading is naive
\* (none: LocalResult::None, one: Single, two: Ambiguous)
from_local_datetime(z, naive) ==
    {u \in {naive - z.std, naive - z.dst} : NaiveLocal(z, u) = naive}

----------------------------------------------------------------------------
(* Day-boundary resolver *)

\* the match with Ambiguous resolved to the later instant
LocalResult_latest(found) ==
    IF found = {} THEN None ELSE CHOOSE u \in found : \A v \in found : u >= v

\* the match on LocalResult: Single is the instant, Ambiguous the earlier one
LocalResult_earliest(found) == IF found = {} THEN None ELSE Min(found)

local_naive_to_utc(z, naive) == LocalResult_earliest(from_local_datetime(z, naive))

\* the probes of the loop that resolve: probe k, counted from 0, looks at the
\* local time k minutes after cursor
ProbesResolving(z, cursor, probes) ==
    {k \in 0..(probes - 1) : local_naive_to_utc(z, cursor + k * Minute) # None}

\* the loop returns at the first probe that resolves and panics after the last
FirstProbe(z, cursor, resolving) ==
    IF resolving = {} THEN Panic
    ELSE local_naive_to_utc(z, cursor + Min(resolving) * Minute)

\* for _ in 0..120, from cursor on
ProbeForward(z, cursor, probes) ==
    FirstProbe(z, cursor, ProbesResolving(z, cursor, probes))

\* timestamp is what local_naive_to_utc gave for naive; the loop starts one
\* minute later
ProbeOr(z, naive, probes, timestamp) ==
    IF timestamp # None THEN timestamp
    ELSE ProbeForward(z, naive + Minute, probes)

\* the resolver with a loop of 119 probes
local_naive_to_utc_resolved_short(z, naive) ==
    ProbeOr(z, naive, ProbeLimit - 1, local_naive_to_utc(z, naive))

local_naive_to_utc_resolved(z, naive) ==
    ProbeOr(z, naive, ProbeLimit, local_naive_to_utc(z, naive))

\* Ledger::day_start_offset
day_start_offset(hours) == hours * Hour

\* DateTime<Local> - Duration moves the instant, then reads the local date
ledger_day_for_timestamp(z, timestamp, offset) ==
    NaiveLocal(z, timestamp - offset) \div Day

\* bounds whose end is 24 hours after the start
DayFrom(start) == <<start, IF start = Panic THEN Panic ELSE start + Day>>

ledger_day_bounds_utc_24_hours(z, day, offset) ==
    DayFrom(local_naive_to_utc_resolved(z, day * Day + offset))

\* ledger_day_bounds_utc with the days cut at local midnight
ledger_day_bounds_utc_midnight(z, day, offset) ==
    <<local_naive_to_utc_resolved(z, day * Day),
      local_naive_to_utc_resolved(z, day * Day + Day)>>

ledger_day_bounds_utc(z, day, offset) ==
    <<local_naive_to_utc_resolved(z, day * Day + offset),
      local_naive_to_utc_resolved(z, day * Day + offset + Day)>>

----------------------------------------------------------------------------
(* Session slicing *)

\* BTreeMap<NaiveDate, HashMap<String, Duration>>: a function on the
\* <<day, task id>> pairs that hold a total
NoTotals == <<>>

\* add_daily_total that stores a fresh task map for the day
add_daily_total_fresh_day(daily_task_totals, date, task_id, duration) ==
    [k \in {k \in DOMAIN daily_task_totals : k[1] # date} \cup {<<date, task_id>>} |->
        IF k # <<date, task_id>> THEN daily_task_totals[k]
        ELSE IF k \in DOMAIN daily_task_totals THEN daily_task_totals[k] + duration
        ELSE duration]

add_daily_total(daily_task_totals, date, task_id, duration) ==
    IF <<date, task_id>> \in DOMAIN daily_task_totals
    THEN [daily_task_totals EXCEPT ![<<date, task_id>>] = @ + duration]
    ELSE daily_task_totals @@ (<<date, task_id>> :> duration)

\* the slice without the clamp of its start to the start of the day
DaySlice_unclamped(day, start, stop, bounds) ==
    [day |-> day,
     slice_start |-> start,
     slice_end |-> IF stop < bounds[2] THEN stop ELSE bounds[2],
     panicked |-> Panic \in {bounds[1], bounds[2]}]

\* one pass of the while loop of accumulate_session: the slice of the day
DaySlice(day, start, stop, bounds) ==
    [day |-> day,
     slice_start |-> IF start > bounds[1] THEN start ELSE bounds[1],
     slice_end |-> IF stop < bounds[2] THEN stop ELSE bounds[2],
     panicked |-> Panic \in {bounds[1], bounds[2]}]

\* the days the loop visits, each with its slice; the loop ends at a day
\* whose bounds panic
RECURSIVE DaySlices(_, _, _, _, _, _)
DaySlicesFrom(z, offset, start, stop, day, last_day, slice) ==
    IF slice.panicked THEN <<slice>>
    ELSE <<slice>> \o DaySlices(z, offset, start, stop, day + 1, last_day)

DaySlices(z, offset, start, stop, day, last_day) ==
    IF day > last_day THEN <<>>
    ELSE DaySlicesFrom(z, offset, start, stop, day, last_day,
            DaySlice(day, start, stop, ledger_day_bounds_utc(z, day, offset)))

\* stop - Duration::seconds(1)
last_moment(stop) == stop - Second

session_slices(z, start, stop, offset) ==
    IF stop <= start THEN <<>>
    ELSE DaySlices(z, offset, start, stop,
                   ledger_day_for_timestamp(z, start, offset),
                   ledger_day_for_timestamp(z, last_moment(stop), offset))

\* if slice_end > slice_start { add_daily_total(..) }
AddSlice(daily_task_totals, task_id, slice) ==
    IF slice.slice_end > slice.slice_start
    THEN add_daily_total(daily_task_totals, slice.day, task_id,
                         slice.slice_end - slice.slice_start)
    ELSE daily_task_totals

\* out holds daily_task_totals and whether a day bound panicked
RECURSIVE AddSlices(_, _, _)
AddSlices(out, task_id, slices) ==
    IF slices = <<>> THEN out
    ELSE IF Head(slices).panicked THEN [out EXCEPT !.panicked = TRUE]
    ELSE AddSlices([out EXCEPT !.daily_task_totals = AddSlice(@, task_id, Head(slices))],
                   task_id, Tail(slices))

accumulate_session(z, out, task_id, start, stop, offset) ==
    AddSlices(out, task_id, session_slices(z, start, stop, offset))

----------------------------------------------------------------------------
(* Events and replay *)

TimeEvent_start(task_id, timestamp) ==
    [timestamp |-> timestamp, kind |-> "start", task_id |-> task_id]

TimeEvent_stop(task_id, timestamp) ==
    [timestamp |-> timestamp, kind |-> "stop", task_id |-> task_id]

\* events.sort_by_key(|event| event.timestamp): a stable sort, so events
\* with equal timestamps keep their order in the log
RECURSIVE InsertByTimestamp(_, _)
InsertByTimestamp(sorted, event) ==
    IF sorted = <<>> THEN <<event>>
    ELSE IF Head(sorted).timestamp <= event.timestamp
         THEN <<Head(sorted)>> \o InsertByTimestamp(Tail(sorted), event)
         ELSE <<event>> \o sorted

\* a sort that takes the events from the end of the log first, so events
\* with equal timestamps come out in the reverse of their order in the log
RECURSIVE sort_by_key_unstable(_)
sort_by_key_unstable(evs) ==
    IF evs = <<>> THEN <<>>
    ELSE InsertByTimestamp(sort_by_key_unstable(Tail(evs)), Head(evs))

RECURSIVE sort_by_key(_)
sort_by_key(evs) ==
    IF evs = <<>> THEN <<>>
    ELSE InsertByTimestamp(sort_by_key(SubSeq(evs, 1, Len(evs) - 1)), evs[Len(evs)])

Without(f, k) == [x \in DOMAIN f \ {k} |-> f[x]]

NoActive == <<>>

\* a Start that leaves the interval of a task that is already open as it is
ReplayStartEvent_first_wins(st, event) ==
    [st EXCEPT
       !.active_tasks =
           IF event.task_id \in DOMAIN @ THEN @
           ELSE @ @@ (event.task_id :> [started_at |-> event.timestamp]),
       !.restarts = IF event.task_id \in DOMAIN st.active_tasks THEN @ + 1 ELSE @]

\* a Start that closes every other open interval
ReplayStartEvent_exclusive(st, event) ==
    [st EXCEPT
       !.active_tasks = event.task_id :> [started_at |-> event.timestamp],
       !.restarts = IF event.task_id \in DOMAIN st.active_tasks THEN @ + 1 ELSE @]

\* EventKind::Start: active_tasks.insert; restarts counts the Start events
\* met while the task already held an open interval
ReplayStartEvent(st, event) ==
    [st EXCEPT
       !.active_tasks =
           IF event.task_id \in DOMAIN @
           THEN [@ EXCEPT ![event.task_id] = [started_at |-> event.timestamp]]
           ELSE @ @@ (event.task_id :> [started_at |-> event.timestamp]),
       !.restarts = IF event.task_id \in DOMAIN st.active_tasks THEN @ + 1 ELSE @]

\* a Stop that leaves an interval without duration open
ReplayStopEvent_keep_empty(z, offset, st, event) ==
    IF /\ event.task_id \in DOMAIN st.active_tasks
       /\ event.timestamp > st.active_tasks[event.task_id].started_at
    THEN accumulate_session(z, [st EXCEPT !.active_tasks = Without(@, event.task_id)],
                            event.task_id,
                            st.active_tasks[event.task_id].started_at,
                            event.timestamp, offset)
    ELSE st

\* EventKind::Stop: active_tasks.remove, then accumulate_session
ReplayStopEvent(z, offset, st, event) ==
    IF event.task_id \in DOMAIN st.active_tasks
    THEN accumulate_session(z, [st EXCEPT !.active_tasks = Without(@, event.task_id)],
                            event.task_id,
                            st.active_tasks[event.task_id].started_at,
                            event.timestamp, offset)
    ELSE st

ReplayEvent(z, offset, st, event) ==
    IF event.kind = "start" THEN ReplayStartEvent(st, event)
    ELSE ReplayStopEvent(z, offset, st, event)

RECURSIVE Replay(_, _, _, _)
Replay(z, offset, st, sorted) ==
    IF sorted = <<>> THEN st
    ELSE Replay(z, offset, ReplayEvent(z, offset, st, Head(sorted)), Tail(sorted))

ReplayStart ==
    [active_tasks |-> NoActive, daily_task_totals |-> NoTotals,
     panicked |-> FALSE, restarts |-> 0]

\* the orders in which a HashMap may hand out the keys in S
IterOrders(S) ==
    {o \in [1..Cardinality(S) -> S] : \A i, j \in DOMAIN o : o[i] = o[j] => i = j}

\* for (task_id, active_session) in &active_tasks, in the order given
RECURSIVE AccumulateActive(_, _, _, _, _)
AccumulateActive(z, offset, st, now, order) ==
    IF order = <<>> THEN st
    ELSE AccumulateActive(z, offset,
            accumulate_session(z, st, Head(order),
                               st.active_tasks[Head(order)].started_at, now, offset),
            now, Tail(order))

\* what the replay loop leaves, before the open intervals are accumulated
replayed(z, evs, hours) ==
    Replay(z, day_start_offset(hours), ReplayStart, sort_by_key(evs))

LedgerSnapshot(st) ==
    [active_tasks |-> st.active_tasks,
     daily_task_totals |-> st.daily_task_totals,
     panicked |-> st.panicked]

\* a snapshot that replays only the events that are not later than now
EventsUpTo(evs, now) == SelectSeq(evs, LAMBDA event : event.timestamp <= now)

snapshot_up_to_now(z, evs, hours, now, order) ==
    LedgerSnapshot(AccumulateActive(z, day_start_offset(hours),
                                    replayed(z, EventsUpTo(evs, now), hours), now,
                                    SelectSeq(order, LAMBDA task_id :
                                        task_id \in DOMAIN replayed(z, EventsUpTo(evs, now),
                                                                    hours).active_tasks)))

\* Ledger::snapshot(now), the HashMap iterated in the given order
snapshot(z, evs, hours, now, order) ==
    LedgerSnapshot(AccumulateActive(z, day_start_offset(hours),
                                    replayed(z, evs, hours), now, order))

ActiveIds(z, evs, hours) == DOMAIN replayed(z, evs, hours).active_tasks

----------------------------------------------------------------------------
(* Registry *)

\* generate_id draws ids that never collide: the n-th entity of a kind gets
\* the n-th id of its pool
ProjectIdPool == <<"p1">>
CategoryIdPool == <<"c1">>
TaskIdPool == <<"A", "B">>

Range(seq) == {seq[i] : i \in DOMAIN seq}
Ids(entities) == {entities[i].id : i \in DOMAIN entities}

\* Ledger::project, Ledger::category, Ledger::task: the first entry with the
\* id, a set of at most one element
Ledger_project(l_projects, id) ==
    IF id \in Ids(l_projects)
    THEN {l_projects[Min({i \in DOMAIN l_projects : l_projects[i].id = id})]}
    ELSE {}

Ledger_category(l_categories, id) ==
    IF id \in Ids(l_categories)
    THEN {l_categories[Min({i \in DOMAIN l_categories : l_categories[i].id = id})]}
    ELSE {}

\* a lookup that settles for the first task of the list
Ledger_task_first(l_tasks, id) ==
    IF l_tasks # <<>> THEN {l_tasks[1]} ELSE {}

Ledger_task(l_tasks, id) ==
    IF id \in Ids(l_tasks)
    THEN {l_tasks[Min({i \in DOMAIN l_tasks : l_tasks[i].id = id})]}
    ELSE {}

\* Option<String>::None for a category id
NoCategory == "none"

add_project(l_projects, id) ==
    Append(l_projects, [id |-> id, archived |-> FALSE])

add_category(l_categories, id) ==
    Append(l_categories, [id |-> id, archived |-> FALSE])

\* add_task without the lookup of the category
add_task_any_category(l_projects, l_categories, l_tasks, id, project_id, category_id) ==
    IF Ledger_project(l_projects, project_id) = {}
    THEN [tasks |-> l_tasks, value |-> "project not found"]
    ELSE [tasks |-> Append(l_tasks, [id |-> id, project_id |-> project_id,
                                      category_id |-> category_id,
                                      archived |-> FALSE]),
          value |-> "ok"]

add_task(l_projects, l_categories, l_tasks, id, project_id, category_id) ==
    IF Ledger_project(l_projects, project_id) = {}
    THEN [tasks |-> l_tasks, value |-> "project not found"]
    ELSE IF category_id # NoCategory /\ Ledger_category(l_categories, category_id) = {}
    THEN [tasks |-> l_tasks, value |-> "category not found"]
    ELSE [tasks |-> Append(l_tasks, [id |-> id, project_id |-> project_id,
                                      category_id |-> category_id,
                                      archived |-> FALSE]),
          value |-> "ok"]

\* submit_edit, EditEntity::Project and EditEntity::Category: the form's
\* archived flag is written to the entity, then the ledger is saved
submit_edit_entity(entities, id, archived, saved, missing) ==
    IF id \notin Ids(entities)
    THEN [entities |-> entities, value |-> missing]
    ELSE [entities |-> [entities EXCEPT
                          ![Min({j \in DOMAIN entities : entities[j].id = id})].archived
                              = archived],
          value |-> IF saved THEN "ok" ELSE "save failed"]

\* the task edit with the form's project written to the task unlooked-up
submit_edit_task_any_project(l_projects, l_categories, l_tasks, id, project_id, category_id, archived, saved) ==
    IF category_id # NoCategory /\ Ledger_category(l_categories, category_id) = {}
    THEN [tasks |-> l_tasks, value |-> "category not found"]
    ELSE IF id \notin Ids(l_tasks)
    THEN [tasks |-> l_tasks, value |-> "task not found"]
    ELSE [tasks |-> [l_tasks EXCEPT
                       ![Min({j \in DOMAIN l_tasks : l_tasks[j].id = id})] =
                           [id |-> id, project_id |-> project_id,
                            category_id |-> category_id, archived |-> archived]],
          value |-> IF saved THEN "ok" ELSE "save failed"]

\* submit_edit, EditEntity::Task: the form's project, category and archived
\* flag are written to the task, then the ledger is saved
submit_edit_task(l_projects, l_categories, l_tasks, id, project_id, category_id, archived, saved) ==
    IF Ledger_project(l_projects, project_id) = {}
    THEN [tasks |-> l_tasks, value |-> "project not found"]
    ELSE IF category_id # NoCategory /\ Ledger_category(l_categories, category_id) = {}
    THEN [tasks |-> l_tasks, value |-> "category not found"]
    ELSE IF id \notin Ids(l_tasks)
    THEN [tasks |-> l_tasks, value |-> "task not found"]
    ELSE [tasks |-> [l_tasks EXCEPT
                       ![Min({j \in DOMAIN l_tasks : l_tasks[j].id = id})] =
                           [id |-> id, project_id |-> project_id,
                            category_id |-> category_id, archived |-> archived]],
          value |-> IF saved THEN "ok" ELSE "save failed"]

----------------------------------------------------------------------------
(* The totals of a day *)

\* the tasks that hold a total on the day: the keys of the day's map
TasksOn(daily_task_totals, day) ==
    {k[2] : k \in {k \in DOMAIN daily_task_totals : k[1] = day}}

\* String::cmp on two task ids: the ids of the pool are listed in byte order
TaskRank(task_id) == Min({i \in DOMAIN TaskIdPool : TaskIdPool[i] = task_id})

\* a comparison by duration alone, the longer first
by_duration(left, right) == left.duration >= right.duration

\* right.1.cmp(&left.1).then_with(|| left.0.cmp(&right.0)) is not Greater
by_duration_then_id(left, right) ==
    \/ left.duration > right.duration
    \/ left.duration = right.duration
         /\ TaskRank(left.task_id) <= TaskRank(right.task_id)

\* totals.sort_by(..): a stable sort
RECURSIVE InsertTotal(_, _)
InsertTotal(sorted, entry) ==
    IF sorted = <<>> THEN <<entry>>
    ELSE IF by_duration_then_id(Head(sorted), entry)
         THEN <<Head(sorted)>> \o InsertTotal(Tail(sorted), entry)
         ELSE <<entry>> \o sorted

RECURSIVE SortTotals(_)
SortTotals(entries) ==
    IF entries = <<>> THEN <<>>
    ELSE InsertTotal(SortTotals(SubSeq(entries, 1, Len(entries) - 1)),
                     entries[Len(entries)])

\* daily_task_totals.get(&day).cloned().unwrap_or_default().into_iter()
\* .collect(): the entries of the day's map in the order the map hands them out
DayEntries(daily_task_totals, day, order) ==
    [i \in DOMAIN order |->
        [task_id |-> order[i], duration |-> daily_task_totals[<<day, order[i]>>]]]

\* LedgerSnapshot::totals_for_day, the HashMap iterated in the given order
totals_for_day(daily_task_totals, day, order) ==
    SortTotals(DayEntries(daily_task_totals, day, order))

----------------------------------------------------------------------------
(* Ledger operations that append events *)

\* start_task without the check of active_tasks
StartIfIdle_unchecked(evs, task_id, timestamp, snap) ==
    IF snap.panicked
    THEN [events |-> evs, value |-> "panic"]
    ELSE [events |-> Append(evs, TimeEvent_start(task_id, timestamp)), value |-> "ok"]

\* the end of start_task, with the snapshot taken
StartIfIdle(evs, task_id, timestamp, snap) ==
    IF snap.panicked
    THEN [events |-> evs, value |-> "panic"]
    ELSE IF task_id \in DOMAIN snap.active_tasks
    THEN [events |-> evs, value |-> "task already running"]
    ELSE [events |-> Append(evs, TimeEvent_start(task_id, timestamp)), value |-> "ok"]

\* start_task with the snapshot consulted before the archived flag
start_task_running_first(z, l_tasks, evs, hours, task_id, timestamp, order) ==
    IF Ledger_task(l_tasks, task_id) = {}
    THEN [events |-> evs, value |-> "task not found"]
    ELSE IF task_id \in ActiveIds(z, evs, hours)
    THEN [events |-> evs, value |-> "task already running"]
    ELSE IF (CHOOSE task \in Ledger_task(l_tasks, task_id) : TRUE).archived
    THEN [events |-> evs, value |-> "task is archived"]
    ELSE [events |-> Append(evs, TimeEvent_start(task_id, timestamp)), value |-> "ok"]

start_task(z, l_tasks, evs, hours, task_id, timestamp, order) ==
    IF Ledger_task(l_tasks, task_id) = {}
    THEN [events |-> evs, value |-> "task not found"]
    ELSE IF (CHOOSE task \in Ledger_task(l_tasks, task_id) : TRUE).archived
    THEN [events |-> evs, value |-> "task is archived"]
    ELSE StartIfIdle(evs, task_id, timestamp, snapshot(z, evs, hours, timestamp, order))

\* stop_task without the check of active_tasks
StopIfRunning_unchecked(evs, task_id, timestamp, snap) ==
    IF snap.panicked
    THEN [events |-> evs, value |-> "panic"]
    ELSE [events |-> Append(evs, TimeEvent_stop(task_id, timestamp)), value |-> "ok"]

\* the end of stop_task, with the snapshot taken
StopIfRunning(evs, task_id, timestamp, snap) ==
    IF snap.panicked
    THEN [events |-> evs, value |-> "panic"]
    ELSE IF task_id \notin DOMAIN snap.active_tasks
    THEN [events |-> evs, value |-> "task is not running"]
    ELSE [events |-> Append(evs, TimeEvent_stop(task_id, timestamp)), value |-> "ok"]

\* stop_task that keeps the log in the order of the timestamps
stop_task_sorted(z, l_tasks, evs, hours, task_id, timestamp, order) ==
    IF Ledger_task(l_tasks, task_id) = {}
    THEN [events |-> evs, value |-> "task not found"]
    ELSE [events |-> sort_by_key(StopIfRunning(evs, task_id, timestamp,
                         snapshot(z, evs, hours, timestamp, order)).events),
          value |-> StopIfRunning(evs, task_id, timestamp,
                         snapshot(z, evs, hours, timestamp, order)).value]

stop_task(z, l_tasks, evs, hours, task_id, timestamp, order) ==
    IF Ledger_task(l_tasks, task_id) = {}
    THEN [events |-> evs, value |-> "task not found"]
    ELSE StopIfRunning(evs, task_id, timestamp, snapshot(z, evs, hours, timestamp, order))

\* Ledger::add_manual_session, called by Command::Log; its body is not among
\* the source files and follows the ledger's description: the task must exist,
\* stop must be later than start, then a Start and a Stop are appended with no
\* look at the snapshot
add_manual_session(l_tasks, evs, task_id, start, stop) ==
    IF Ledger_task(l_tasks, task_id) = {}
    THEN [events |-> evs, value |-> "task not found"]
    ELSE IF stop <= start
    THEN [events |-> evs, value |-> "invalid range"]
    ELSE [events |-> evs \o <<TimeEvent_start(task_id, start),
                              TimeEvent_stop(task_id, stop)>>,
          value |-> "ok"]

----------------------------------------------------------------------------
(* The day view of the interface: sessions, retiming, deleting *)

\* Option<usize>::None for an event index; the log is indexed from 1
NoIndex == 0

\* ledger.events.iter().enumerate()
Indexed(evs) ==
    [i \in DOMAIN evs |-> [index |-> i, timestamp |-> evs[i].timestamp,
                           kind |-> evs[i].kind, task_id |-> evs[i].task_id]]

\* left.timestamp.cmp(right.timestamp).then_with(left.index.cmp(right.index))
TimestampThenIndex(left, right) ==
    \/ left.timestamp < right.timestamp
    \/ left.timestamp = right.timestamp /\ left.index <= right.index

RECURSIVE InsertByTimestampThenIndex(_, _)
InsertByTimestampThenIndex(sorted, entry) ==
    IF sorted = <<>> THEN <<entry>>
    ELSE IF TimestampThenIndex(Head(sorted), entry)
         THEN <<Head(sorted)>> \o InsertByTimestampThenIndex(Tail(sorted), entry)
         ELSE <<entry>> \o sorted

RECURSIVE sort_by_timestamp_then_index(_)
sort_by_timestamp_then_index(entries) ==
    IF entries = <<>> THEN <<>>
    ELSE InsertByTimestampThenIndex(
            sort_by_timestamp_then_index(SubSeq(entries, 1, Len(entries) - 1)),
            entries[Len(entries)])

SessionRecord(task_id, start, stop, start_event_index, stop_event_index) ==
    [task_id |-> task_id, start |-> start, stop |-> stop,
     start_event_index |-> start_event_index, stop_event_index |-> stop_event_index]

\* the loop of collect_sessions over the sorted events: st holds the map
\* active and the sessions pushed so far
CollectStart(st, entry) ==
    [st EXCEPT !.active =
        [t \in DOMAIN @ \cup {entry.task_id} |->
            IF t = entry.task_id
            THEN [started_at |-> entry.timestamp, start_event_index |-> entry.index]
            ELSE @[t]]]

CollectStop(st, entry) ==
    IF entry.task_id \notin DOMAIN st.active THEN st
    ELSE IF entry.timestamp > st.active[entry.task_id].started_at
    THEN [active |-> Without(st.active, entry.task_id),
          sessions |-> st.sessions \cup
              {SessionRecord(entry.task_id, st.active[entry.task_id].started_at,
                             entry.timestamp,
                             st.active[entry.task_id].start_event_index, entry.index)}]
    ELSE [st EXCEPT !.active = Without(@, entry.task_id)]

RECURSIVE Collect(_, _)
Collect(st, sorted) ==
    IF sorted = <<>> THEN st
    ELSE Collect(IF Head(sorted).kind = "start" THEN CollectStart(st, Head(sorted))
                 ELSE CollectStop(st, Head(sorted)),
                 Tail(sorted))

\* the sessions of the events with a Start and a Stop
ClosedSessions(evs) ==
    Collect([active |-> <<>>, sessions |-> {}],
            sort_by_timestamp_then_index(Indexed(evs)))

\* for (task_id, active_session) in active: the sessions still open at now
OpenSessions(active, now) ==
    {SessionRecord(t, active[t].started_at, now, active[t].start_event_index, NoIndex) :
        t \in {t \in DOMAIN active : now > active[t].started_at}}

\* collect_sessions, as the set of the records it returns
collect_sessions(evs, now) ==
    ClosedSessions(evs).sessions \cup OpenSessions(ClosedSessions(evs).active, now)

\* local_day_bounds_utc: the local midnights around the day
local_day_bounds_utc(z, day) ==
    <<local_naive_to_utc(z, day * Day), local_naive_to_utc(z, day * Day + Day)>>

\* build_day_rows: the sessions that show on the selected day
DayRowsWithin(sessions, bounds) ==
    {s \in sessions : ~(s.stop <= bounds[1] \/ s.start >= bounds[2])}

build_day_rows(z, selected_day, sessions) ==
    DayRowsWithin(sessions, local_day_bounds_utc(z, selected_day))

\* local_clock_on_date_to_utc
local_clock_on_date_to_utc(z, day, hour, minute) ==
    local_naive_to_utc(z, day * Day + hour * Hour + minute * Minute)

\* with_timezone(&Local).date_naive()
LocalDate(z, timestamp) == NaiveLocal(z, timestamp) \div Day

Max(S) == CHOOSE x \in S : \A y \in S : x >= y

\* the while loop of build_local_daily_task_totals for one session: the local
\* calendar days from day to last_day, each with its slice; local_day_bounds_utc
\* panics (expect) at a midnight that does not exist
RECURSIVE LocalDaySlices(_, _, _, _, _)
LocalDaySlicesFrom(z, start, stop, day, last_day, bounds) ==
    IF None \in {bounds[1], bounds[2]}
    THEN <<[day |-> day, slice_start |-> start, slice_end |-> start, panicked |-> TRUE]>>
    ELSE <<DaySlice(day, start, stop, bounds)>>
            \o LocalDaySlices(z, start, stop, day + 1, last_day)

LocalDaySlices(z, start, stop, day, last_day) ==
    IF day > last_day THEN <<>>
    ELSE LocalDaySlicesFrom(z, start, stop, day, last_day, local_day_bounds_utc(z, day))

\* one session of the for loop: skipped when stop <= start
AddLocalSession(z, out, rec) ==
    IF rec.stop <= rec.start \/ out.panicked THEN out
    ELSE AddSlices(out, rec.task_id,
                   LocalDaySlices(z, rec.start, rec.stop, LocalDate(z, rec.start),
                                  LocalDate(z, last_moment(rec.stop))))

\* for session in sessions; the totals are sums, so the order of the sessions
\* does not show in them
RECURSIVE AddLocalSessions(_, _, _)
AddLocalSessions(z, out, sessions) ==
    IF sessions = {} THEN out
    ELSE AddLocalSessions(z, AddLocalSession(z, out, CHOOSE rec \in sessions : TRUE),
                          sessions \ {CHOOSE rec \in sessions : TRUE})

build_local_daily_task_totals(z, sessions) ==
    AddLocalSessions(z, [daily_task_totals |-> NoTotals, panicked |-> FALSE], sessions)

\* sorted_task_events: the Start and Stop events of the task, each with its
\* index in the log, by timestamp and then index
sorted_task_events(evs, task_id) ==
    sort_by_timestamp_then_index(
        SelectSeq(Indexed(evs), LAMBDA entry : entry.task_id = task_id))

\* task_events.iter().position(..): the places of the event in the history
PositionsOf(task_events, index, kind) ==
    {p \in DOMAIN task_events :
        task_events[p].index = index /\ task_events[p].kind = kind}

\* task_events[..current_position].iter().rev().find(Stop)
StopBefore(task_events, positions) ==
    IF positions = {} THEN None
    ELSE IF {q \in DOMAIN task_events :
                q < Min(positions) /\ task_events[q].kind = "stop"} = {}
    THEN None
    ELSE task_events[Max({q \in DOMAIN task_events :
                q < Min(positions) /\ task_events[q].kind = "stop"})].timestamp

\* task_events.iter().skip(current_position + 1).find(Start)
StartAfter(task_events, positions) ==
    IF positions = {} THEN None
    ELSE IF {q \in DOMAIN task_events :
                q > Min(positions) /\ task_events[q].kind = "start"} = {}
    THEN None
    ELSE task_events[Min({q \in DOMAIN task_events :
                q > Min(positions) /\ task_events[q].kind = "start"})].timestamp

previous_stop_for_task(evs, task_id, start_event_index) ==
    StopBefore(sorted_task_events(evs, task_id),
               PositionsOf(sorted_task_events(evs, task_id), start_event_index, "start"))

next_start_for_task(evs, task_id, stop_event_index) ==
    StartAfter(sorted_task_events(evs, task_id),
               PositionsOf(sorted_task_events(evs, task_id), stop_event_index, "stop"))

\* ledger.events[event_index].timestamp = next_timestamp, then persist
SetTimestamp(evs, event_index, next_timestamp, saved, done) ==
    [events |-> [evs EXCEPT ![event_index].timestamp = next_timestamp],
     value |-> IF saved THEN done ELSE "save failed"]

\* the Start branch without the look at the previous Stop
RetimeStart_any_previous(evs, row, next_timestamp, previous_stop, saved) ==
    IF row.start_event_index = NoIndex
    THEN [events |-> evs, value |-> "session start cannot be edited"]
    ELSE IF next_timestamp >= row.stop
    THEN [events |-> evs, value |-> "start must be before end"]
    ELSE IF row.start_event_index \notin DOMAIN evs
            \/ evs[row.start_event_index].kind # "start"
    THEN [events |-> evs, value |-> "unable to edit start: event mismatch"]
    ELSE SetTimestamp(evs, row.start_event_index, next_timestamp, saved, "updated start")

\* handle_day_digit_input, DayField::Start
RetimeStart(evs, row, next_timestamp, previous_stop, saved) ==
    IF row.start_event_index = NoIndex
    THEN [events |-> evs, value |-> "session start cannot be edited"]
    ELSE IF next_timestamp >= row.stop
    THEN [events |-> evs, value |-> "start must be before end"]
    ELSE IF previous_stop # None /\ next_timestamp < previous_stop
    THEN [events |-> evs,
          value |-> "start cannot be before previous stop for this task"]
    ELSE IF row.start_event_index \notin DOMAIN evs
            \/ evs[row.start_event_index].kind # "start"
    THEN [events |-> evs, value |-> "unable to edit start: event mismatch"]
    ELSE SetTimestamp(evs, row.start_event_index, next_timestamp, saved, "updated start")

\* the End branch without the look at the next Start
RetimeEnd_any_next(evs, row, next_timestamp, next_start, now, saved) ==
    IF row.stop_event_index = NoIndex
    THEN [events |-> evs,
          value |-> "session end cannot be edited while task is running"]
    ELSE IF next_timestamp <= row.start
    THEN [events |-> evs, value |-> "end must be after start"]
    ELSE IF next_timestamp > now
    THEN [events |-> evs, value |-> "end cannot be later than current time"]
    ELSE IF row.stop_event_index \notin DOMAIN evs
            \/ evs[row.stop_event_index].kind # "stop"
    THEN [events |-> evs, value |-> "unable to edit end: event mismatch"]
    ELSE SetTimestamp(evs, row.stop_event_index, next_timestamp, saved, "updated end")

\* handle_day_digit_input, DayField::End
RetimeEnd(evs, row, next_timestamp, next_start, now, saved) ==
    IF row.stop_event_index = NoIndex
    THEN [events |-> evs,
          value |-> "session end cannot be edited while task is running"]
    ELSE IF next_timestamp <= row.start
    THEN [events |-> evs, value |-> "end must be after start"]
    ELSE IF next_timestamp > now
    THEN [events |-> evs, value |-> "end cannot be later than current time"]
    ELSE IF next_start # None /\ next_timestamp > next_start
    THEN [events |-> evs,
          value |-> "end cannot be after following start for this task"]
    ELSE IF row.stop_event_index \notin DOMAIN evs
            \/ evs[row.stop_event_index].kind # "stop"
    THEN [events |-> evs, value |-> "unable to edit end: event mismatch"]
    ELSE SetTimestamp(evs, row.stop_event_index, next_timestamp, saved, "updated end")

\* handle_day_digit_input once the fourth digit is typed: next_timestamp is
\* the clock time typed, on the local date of the end of the row being edited
handle_day_digit_input(evs, row, day_field, next_timestamp, now, saved) ==
    IF next_timestamp = None
    THEN [events |-> evs, value |-> "selected local time does not exist"]
    ELSE IF day_field = "start"
    THEN RetimeStart(evs, row, next_timestamp,
                     IF row.start_event_index = NoIndex THEN None
                     ELSE previous_stop_for_task(evs, row.task_id, row.start_event_index),
                     saved)
    ELSE RetimeEnd(evs, row, next_timestamp,
                   IF row.stop_event_index = NoIndex THEN None
                   ELSE next_start_for_task(evs, row.task_id, row.stop_event_index),
                   now, saved)

\* Vec::truncate in place of Vec::remove: the event goes, and all after it
RemoveAt_truncate(evs, index) == SubSeq(evs, 1, index - 1)

\* ledger.events.remove(index)
RemoveAt(evs, index) == SubSeq(evs, 1, index - 1) \o SubSeq(evs, index + 1, Len(evs))

\* the two removals in ascending order of index
RemoveInterval_ascending(evs, start_event_index, stop_event_index) ==
    IF stop_event_index # NoIndex /\ stop_event_index # start_event_index
    THEN RemoveAt(RemoveAt(evs, Min({start_event_index, stop_event_index})),
                  Max({start_event_index, stop_event_index}))
    ELSE RemoveAt(evs, start_event_index)

\* indices.sort_unstable_by(descending); for index in indices { remove }
RemoveInterval(evs, start_event_index, stop_event_index) ==
    IF stop_event_index # NoIndex /\ stop_event_index # start_event_index
    THEN RemoveAt(RemoveAt(evs, Max({start_event_index, stop_event_index})),
                  Min({start_event_index, stop_event_index}))
    ELSE RemoveAt(evs, start_event_index)

delete_interval(evs, start_event_index, stop_event_index, saved) ==
    IF start_event_index \notin DOMAIN evs
    THEN [events |-> evs, value |-> "interval start event no longer exists"]
    ELSE IF evs[start_event_index].kind # "start"
    THEN [events |-> evs, value |-> "interval start event mismatch"]
    ELSE IF stop_event_index # NoIndex /\ stop_event_index \notin DOMAIN evs
    THEN [events |-> evs, value |-> "interval stop event no longer exists"]
    ELSE IF stop_event_index # NoIndex /\ evs[stop_event_index].kind # "stop"
    THEN [events |-> evs, value |-> "interval stop event mismatch"]
    ELSE [events |-> RemoveInterval(evs, start_event_index, stop_event_index),
          value |-> IF saved THEN "deleted interval" ELSE "save failed"]

----------------------------------------------------------------------------
(* The store: save_ledger and load_ledger *)

\* A text (a name, a description, a note) is the sequence of its lines, "a\nb"
\* being <<"a", "b">>; an Option<String> that is None is the text of no line.
NoText == <<>>

\* EVENTS_MARKER between its two newlines
MarkerText == "=== EVENTS ==="

\* The file is the sequence of its lines.  A line of the TOML header is a
\* key with a one-line value, the header of a table of an array of tables,
\* the opening of a multi-line string, a line inside such a string, or the
\* line that closes it; a line of the event part is one JSON object.
BlankLine == [t |-> "blank"]
RawLine(text) == [t |-> "raw", text |-> text]
KeyLine(key, value) == [t |-> "key", key |-> key, value |-> value]
TableLine(name) == [t |-> "table", name |-> name]
OpenLine(key) == [t |-> "open", key |-> key]
CloseLine(text) == [t |-> "close", text |-> text]
JsonLine(fields) == [t |-> "json", fields |-> fields]

\* file.write_all(EVENTS_MARKER): the newline that ends the header's last
\* line is followed by an empty line and the marker's own line
MarkerLines == <<BlankLine, RawLine(MarkerText)>>

\* toml::to_string_pretty of a string: one line when the text has one line,
\* else a multi-line string that holds the text's newlines as they are
toml_string(key, text) ==
    IF Len(text) = 1 THEN <<KeyLine(key, text)>>
    ELSE <<OpenLine(key)>>
         \o [i \in 1..(Len(text) - 1) |-> RawLine(text[i])]
         \o <<CloseLine(text[Len(text)])>>

\* an Option<String>: None writes no key
toml_option(key, text) == IF text = NoText THEN <<>> ELSE toml_string(key, text)

toml_project(project) ==
    <<TableLine("projects"), KeyLine("id", project.id)>>
    \o toml_string("name", project.name)
    \o toml_option("color", project.color)
    \o <<KeyLine("archived", project.archived)>>

toml_task(task) ==
    <<TableLine("tasks"), KeyLine("id", task.id), KeyLine("project_id", task.project_id)>>
    \o (IF task.category_id = NoCategory THEN <<>>
        ELSE <<KeyLine("category_id", task.category_id)>>)
    \o toml_string("description", task.description)
    \o <<KeyLine("archived", task.archived)>>

toml_category(category) ==
    <<TableLine("categories"), KeyLine("id", category.id)>>
    \o toml_string("name", category.name)
    \o toml_option("description", category.description)
    \o <<KeyLine("archived", category.archived)>>

toml_entity(name, entity) ==
    IF name = "projects" THEN toml_project(entity)
    ELSE IF name = "tasks" THEN toml_task(entity)
    ELSE toml_category(entity)

\* an empty Vec is the value [] of its key
toml_empty_array(name, entities) ==
    IF entities = <<>> THEN <<KeyLine(name, <<>>)>> ELSE <<>>

RECURSIVE toml_array_of_tables(_, _)
toml_array_of_tables(name, entities) ==
    IF entities = <<>> THEN <<>>
    ELSE toml_entity(name, Head(entities)) \o toml_array_of_tables(name, Tail(entities))

\* toml::to_string_pretty(&ledger.header): the values, then the tables
toml_to_string_pretty(header) ==
    <<KeyLine("schema_version", header.schema_version),
      KeyLine("created_at", header.created_at),
      KeyLine("day_start_offset_hours", header.day_start_offset_hours)>>
    \o toml_empty_array("projects", header.projects)
    \o toml_empty_array("tasks", header.tasks)
    \o toml_empty_array("categories", header.categories)
    \o toml_array_of_tables("projects", header.projects)
    \o toml_array_of_tables("tasks", header.tasks)
    \o toml_array_of_tables("categories", header.categories)

\* a JSON string: the lines of the text with the escape \n between them
EscapedNewline == "\\n"

RECURSIVE json_escape(_)
json_escape(text) ==
    IF Len(text) = 1 THEN <<text[1]>>
    ELSE <<Head(text), EscapedNewline>> \o json_escape(Tail(text))

RECURSIVE json_unescape(_)
json_unescape(chars) ==
    IF Len(chars) = 1 THEN <<chars[1]>>
    ELSE <<Head(chars)>> \o json_unescape(Tail(Tail(chars)))

\* serde_json::to_string(event): one line, the note null or a string
serde_json_to_string(event) ==
    JsonLine([timestamp |-> event.timestamp, type |-> event.kind,
              task_id |-> event.task_id,
              note |-> IF event.note = NoText THEN [null |-> TRUE, chars |-> <<>>]
                       ELSE [null |-> FALSE, chars |-> json_escape(event.note)]])

\* serde_json::from_str(line)
serde_json_from_str(line) ==
    [timestamp |-> line.fields.timestamp, kind |-> line.fields.type,
     task_id |-> line.fields.task_id,
     note |-> IF line.fields.note.null THEN NoText
              ELSE json_unescape(line.fields.note.chars)]

\* LedgerHeader::new and Ledger::new
LedgerHeader_new(now) ==
    [schema_version |-> 1, created_at |-> now, day_start_offset_hours |-> 0,
     projects |-> <<>>, tasks |-> <<>>, categories |-> <<>>]

Ledger_new(now) == [header |-> LedgerHeader_new(now), events |-> <<>>]

\* save_ledger: the header, the marker, one line for each event
save_ledger(ledger) ==
    [exists |-> TRUE,
     lines |-> toml_to_string_pretty(ledger.header)
               \o MarkerLines
               \o [i \in DOMAIN ledger.events |-> serde_json_to_string(ledger.events[i])]]

\* f with f[key] = value
SetKey(f, key, value) ==
    [k \in DOMAIN f \cup {key} |-> IF k = key THEN value ELSE f[k]]

SetLast(list, key, value) ==
    [list EXCEPT ![Len(list)] = SetKey(list[Len(list)], key, value)]

\* the Option fields a table may leave out
TableDefaults(name) ==
    IF name = "projects" THEN [color |-> NoText]
    ELSE IF name = "tasks" THEN [category_id |-> NoCategory]
    ELSE [description |-> NoText]

\* the parser of the TOML header: st holds the header read so far, the table
\* a key goes to, and the key and the lines of a multi-line string not yet closed
TomlSet(st, key, value) ==
    IF st.table = "" THEN [st EXCEPT !.header = SetKey(st.header, key, value)]
    ELSE [st EXCEPT !.header =
             SetKey(st.header, st.table, SetLast(st.header[st.table], key, value))]

TomlTable(st, name) ==
    [st EXCEPT !.table = name,
               !.header = SetKey(st.header, name,
                   Append(IF name \in DOMAIN st.header THEN st.header[name] ELSE <<>>,
                          TableDefaults(name)))]

TomlLine(st, line) ==
    IF st.failed THEN st
    ELSE IF st.open # ""
    THEN IF line.t = "raw" THEN [st EXCEPT !.text = Append(st.text, line.text)]
         ELSE IF line.t = "blank" THEN [st EXCEPT !.text = Append(st.text, "")]
         ELSE IF line.t = "close"
         THEN TomlSet([st EXCEPT !.open = "", !.text = <<>>], st.open,
                      Append(st.text, line.text))
         ELSE [st EXCEPT !.failed = TRUE]
    ELSE IF line.t = "blank" THEN st
    ELSE IF line.t = "table" THEN TomlTable(st, line.name)
    ELSE IF line.t = "key" THEN TomlSet(st, line.key, line.value)
    ELSE IF line.t = "open" THEN [st EXCEPT !.open = line.key]
    ELSE [st EXCEPT !.failed = TRUE]

RECURSIVE TomlLines(_, _)
TomlLines(st, lines) ==
    IF lines = <<>> THEN st
    ELSE TomlLines(TomlLine(st, Head(lines)), Tail(lines))

TomlStart ==
    [header |-> [day_start_offset_hours |-> 0], table |-> "", open |-> "",
     text |-> <<>>, failed |-> FALSE]

\* the fields serde requires of the header and of each entity
HeaderKeys ==
    {"schema_version", "created_at", "day_start_offset_hours",
     "projects", "tasks", "categories"}

TableKeys(name) ==
    IF name = "projects" THEN {"id", "name", "color", "archived"}
    ELSE IF name = "tasks" THEN {"id", "project_id", "category_id", "description", "archived"}
    ELSE {"id", "name", "description", "archived"}

Complete(header) ==
    /\ DOMAIN header = HeaderKeys
    /\ \A name \in {"projects", "tasks", "categories"} :
           \A i \in DOMAIN header[name] : DOMAIN header[name][i] = TableKeys(name)

TomlFinish(st) ==
    IF st.failed \/ st.open # "" THEN [ok |-> FALSE]
    ELSE IF ~Complete(st.header) THEN [ok |-> FALSE]
    ELSE [ok |-> TRUE, header |-> st.header]

\* toml::from_str::<LedgerHeader>(header_blob)
toml_from_str(lines) == TomlFinish(TomlLines(TomlStart, lines))

\* raw.split_once(EVENTS_MARKER): the places of a line that is the marker's
\* text, with a line before it
MarkerPlaces(lines) ==
    {i \in DOMAIN lines : i > 1 /\ lines[i].t = "raw" /\ lines[i].text = MarkerText}

header_blob(lines) ==
    IF MarkerPlaces(lines) = {} THEN lines
    ELSE SubSeq(lines, 1, Min(MarkerPlaces(lines)) - 1)

events_blob(lines) ==
    IF MarkerPlaces(lines) = {} THEN <<>>
    ELSE SubSeq(lines, Min(MarkerPlaces(lines)) + 1, Len(lines))

\* for line in events_blob.lines(): blank lines are skipped
EventLines(lines) == SelectSeq(lines, LAMBDA line : line.t # "blank")

LoadEvents(header, lines) ==
    IF \E i \in DOMAIN lines : lines[i].t # "json"
    THEN [value |-> "failed to parse JSONL event"]
    ELSE [value |-> "ok", header |-> header,
          events |-> [i \in DOMAIN lines |-> serde_json_from_str(lines[i])]]

LoadParsed(parsed, lines) ==
    IF ~parsed.ok THEN [value |-> "failed to parse TOML header"]
    ELSE LoadEvents(parsed.header, EventLines(events_blob(lines)))

Loaded(ledger) == [value |-> "ok", header |-> ledger.header, events |-> ledger.events]

\* load_ledger with raw.is_empty() in place of raw.trim().is_empty()
load_ledger_untrimmed(f, now) ==
    IF ~f.exists THEN Loaded(Ledger_new(now))
    ELSE IF f.lines = <<>> THEN Loaded(Ledger_new(now))
    ELSE LoadParsed(toml_from_str(header_blob(f.lines)), f.lines)

\* load_ledger: a file that does not exist, or holds only white space, is a
\* new ledger
load_ledger(f, now) ==
    IF ~f.exists THEN Loaded(Ledger_new(now))
    ELSE IF \A i \in DOMAIN f.lines : f.lines[i].t = "blank" THEN Loaded(Ledger_new(now))
    ELSE LoadParsed(toml_from_str(header_blob(f.lines)), f.lines)

----------------------------------------------------------------------------
(* The list of recent ledgers: remember_ledger and recent_ledgers *)

\* A path is the sequence of its characters and recent_ledgers.txt the
\* sequence of its lines; the paths of the model hold no line break, so
\* writeln writes one line for each.  Reads and writes succeed.
MAX_RECENT_LEDGERS == 50

NoRecent == [exists |-> FALSE, lines |-> <<>>]

Whitespace == {" "}

\* env::current_dir()
CurrentDir == <<"/", "w">>

\* absolutize, for paths that do not exist yet or are canonical already
absolutize(path) ==
    IF path # <<>> /\ Head(path) = "/" THEN path
    ELSE CurrentDir \o <<"/">> \o path

\* str::trim
RECURSIVE trim_start(_)
trim_start(line) ==
    IF line # <<>> /\ Head(line) \in Whitespace THEN trim_start(Tail(line))
    ELSE line

RECURSIVE trim_end(_)
trim_end(line) ==
    IF line # <<>> /\ line[Len(line)] \in Whitespace
    THEN trim_end(SubSeq(line, 1, Len(line) - 1))
    ELSE line

trim(line) == trim_end(trim_start(line))

\* the rows of the loop over raw.lines(): trimmed, the empty ones skipped
Rows(lines) ==
    SelectSeq([i \in DOMAIN lines |-> trim(lines[i])], LAMBDA row : row # <<>>)

\* the loop breaks once rows.len() >= limit, after the push
RowsRead(rows, limit) ==
    SubSeq(rows, 1, Min({Len(rows), IF limit = 0 THEN 1 ELSE limit}))

recent_ledgers(f, limit) ==
    IF ~f.exists THEN <<>> ELSE RowsRead(Rows(f.lines), limit)

\* writeln!(file, "{}", path.display()) for each entry
save_recent_ledgers(entries) == [exists |-> TRUE, lines |-> entries]

\* entries.retain(|entry| entry != &path)
retain(entries, path) == SelectSeq(entries, LAMBDA entry : entry # path)

\* entries.truncate(len)
truncate(entries, len) == SubSeq(entries, 1, Min({Len(entries), len}))

\* retain, insert(0, path), truncate
Remembered(entries, path) ==
    truncate(<<path>> \o retain(entries, path), MAX_RECENT_LEDGERS)

remember_ledger(f, path) ==
    save_recent_ledgers(
        Remembered(recent_ledgers(f, MAX_RECENT_LEDGERS), absolutize(path)))

----------------------------------------------------------------------------
(* Inputs *)

\* ids a caller may pass: the pools and one id no entity ever gets
ProjectInputs == Range(ProjectIdPool) \cup {"p0"}
CategoryInputs == Range(CategoryIdPool) \cup {"c0"}
TaskInputs == Range(TaskIdPool) \cup {"Z"}

\* instants passed as timestamp or now: one second before midnight of day 2,
\* one tick after it, and 05:00 of day 2 (UTC)
Instants == {At(1, 23, 59, 59, 0), At(2, 0, 0, 0, 1), At(2, 5, 0, 0, 0)}

\* instants of the sessions given to accumulate_session
SessionInstants ==
    Instants \cup {At(2, 1, 0, 0, 0), At(2, 2, 0, 0, 0), At(2, 3, 30, 0, 0),
                   At(2, 4, 0, 0, 0), At(3, 1, 0, 0, 0)}

\* Utc::now() when the interface draws the day view
NowInstants == {At(2, 0, 0, 0, 1), At(2, 6, 0, 0, 0)}

\* the day selected in the calendar, and the clock times typed as HHMM
SelectedDays == {1, 2}
ClockInputs == {<<0, 0>>, <<5, 0>>}

\* day_start_offset_hours found in the header of the ledger file
OffsetHours == {0, 4}

Called(op, task_id, value) == [op |-> op, task_id |-> task_id, value |-> value]

NoSession == [task_id |-> "", start |-> 0, stop |-> 0, before |-> NoTotals]
NoAcc == [called |-> FALSE, slices |-> <<>>,
          out |-> [daily_task_totals |-> NoTotals, panicked |-> FALSE]]

\* the file and the value loaded are followed in SpecStore; elsewhere the
\* outcome of a save is the flag saved of the operation
NoFile == [exists |-> FALSE, lines |-> <<>>]
NotLoaded == [value |-> "not called"]

----------------------------------------------------------------------------
(* The ledger as a state machine *)

\* load_ledger of a file that holds a header without entities and no events
Init ==
    /\ projects = <<>>
    /\ categories = <<>>
    /\ tasks = <<>>
    /\ events = <<>>
    /\ day_start_offset_hours \in OffsetHours
    /\ tz \in {TzUtc, TzSpring}
    /\ result = Called("load_ledger", "", "ok")
    /\ session = NoSession
    /\ acc = NoAcc
    /\ file = NoFile
    /\ loaded = NotLoaded
    /\ recent = NoRecent

\* the operation's return value r: the new content and the value returned
TasksReturn(op, id, r) ==
    /\ tasks' = r.tasks
    /\ result' = Called(op, id, r.value)

EventsReturn(op, task_id, r) ==
    /\ events' = r.events
    /\ result' = Called(op, task_id, r.value)

AddProject ==
    /\ Len(projects) < Len(ProjectIdPool)
    /\ projects' = add_project(projects, ProjectIdPool[Len(projects) + 1])
    /\ result' = Called("add_project", "", "ok")
    /\ UNCHANGED <<categories, tasks, events, env, probe, store>>

AddTask ==
    /\ Len(tasks) < Len(TaskIdPool)
    /\ \E project_id \in ProjectInputs :
          TasksReturn("add_task", TaskIdPool[Len(tasks) + 1],
                      add_task(projects, categories, tasks,
                               TaskIdPool[Len(tasks) + 1], project_id, NoCategory))
    /\ UNCHANGED <<projects, categories, events, env, probe, store>>

\* the edit form is built for a task of the ledger and offers the ledger's
\* projects (build_task_edit_state); the save may fail
EditTask ==
    /\ \E id \in Ids(tasks), project_id \in Ids(projects),
          archived \in BOOLEAN, saved \in BOOLEAN :
          TasksReturn("submit_edit", id,
                      submit_edit_task(projects, categories, tasks, id, project_id,
                                       NoCategory, archived, saved))
    /\ UNCHANGED <<projects, categories, events, env, probe, store>>

StartTask ==
    /\ Len(events) < MaxEvents
    /\ \E task_id \in TaskInputs, timestamp \in Instants :
       \E order \in IterOrders(ActiveIds(tz, events, day_start_offset_hours)) :
          EventsReturn("start_task", task_id,
                       start_task(tz, tasks, events, day_start_offset_hours,
                                  task_id, timestamp, order))
    /\ UNCHANGED <<registry, env, probe, store>>

StopTask ==
    /\ Len(events) < MaxEvents
    /\ \E task_id \in TaskInputs, timestamp \in Instants :
       \E order \in IterOrders(ActiveIds(tz, events, day_start_offset_hours)) :
          EventsReturn("stop_task", task_id,
                       stop_task(tz, tasks, events, day_start_offset_hours,
                                 task_id, timestamp, order))
    /\ UNCHANGED <<registry, env, probe, store>>

Next == AddProject \/ AddTask \/ EditTask \/ StartTask \/ StopTask

Spec == Init /\ [][Next]_vars

----------------------------------------------------------------------------
(* The registry on its own: projects, categories and tasks are created and
   edited through the prompts and edit forms of the interface *)

\* a call that names a project and a category
FormCalled(op, task_id, project_id, category_id, value) ==
    [op |-> op, task_id |-> task_id, project_id |-> project_id,
     category_id |-> category_id, value |-> value]

TaskFormReturn(op, id, project_id, category_id, r) ==
    /\ tasks' = r.tasks
    /\ result' = FormCalled(op, id, project_id, category_id, r.value)

AddCategory ==
    /\ Len(categories) < Len(CategoryIdPool)
    /\ categories' = add_category(categories, CategoryIdPool[Len(categories) + 1])
    /\ result' = Called("add_category", "", "ok")
    /\ UNCHANGED <<projects, tasks, events, env, probe, store>>

\* the new-task prompt: any project id and any category id, or none
AddTaskForm ==
    /\ Len(tasks) < Len(TaskIdPool)
    /\ \E project_id \in ProjectInputs, category_id \in CategoryInputs \cup {NoCategory} :
          TaskFormReturn("add_task", TaskIdPool[Len(tasks) + 1], project_id, category_id,
                         add_task(projects, categories, tasks,
                                  TaskIdPool[Len(tasks) + 1], project_id, category_id))
    /\ UNCHANGED <<projects, categories, events, env, probe, store>>

EditProject ==
    /\ \E id \in ProjectInputs, archived \in BOOLEAN, saved \in BOOLEAN :
          /\ projects' = submit_edit_entity(projects, id, archived, saved,
                                            "project not found").entities
          /\ result' = Called("submit_edit_project", id,
                            submit_edit_entity(projects, id, archived, saved,
                                               "project not found").value)
    /\ UNCHANGED <<categories, tasks, events, env, probe, store>>

EditCategory ==
    /\ \E id \in CategoryInputs, archived \in BOOLEAN, saved \in BOOLEAN :
          /\ categories' = submit_edit_entity(categories, id, archived, saved,
                                              "category not found").entities
          /\ result' = Called("submit_edit_category", id,
                            submit_edit_entity(categories, id, archived, saved,
                                               "category not found").value)
    /\ UNCHANGED <<projects, tasks, events, env, probe, store>>

\* the task edit form, with any id in each of its fields
EditTaskForm ==
    /\ \E id \in TaskInputs, project_id \in ProjectInputs,
          category_id \in CategoryInputs \cup {NoCategory},
          archived \in BOOLEAN, saved \in BOOLEAN :
          TaskFormReturn("submit_edit_task", id, project_id, category_id,
                         submit_edit_task(projects, categories, tasks, id, project_id,
                                          category_id, archived, saved))
    /\ UNCHANGED <<projects, categories, events, env, probe, store>>

NextRegistry ==
    AddProject \/ AddCategory \/ AddTaskForm \/ EditProject \/ EditCategory \/ EditTaskForm

InitRegistry == Init /\ tz = TzUtc /\ day_start_offset_hours = 0

SpecRegistry == InitRegistry /\ [][NextRegistry]_vars

----------------------------------------------------------------------------
(* The event log on its own: a ledger file with one project and two tasks,
   then start_task and stop_task calls *)

InitLog ==
    /\ projects = add_project(<<>>, ProjectIdPool[1])
    /\ categories = <<>>
    /\ tasks = add_task(projects, categories,
                        add_task(projects, categories, <<>>, TaskIdPool[1],
                                 ProjectIdPool[1], NoCategory).tasks,
                        TaskIdPool[2], ProjectIdPool[1], NoCategory).tasks
    /\ events = <<>>
    /\ day_start_offset_hours \in OffsetHours
    /\ tz \in {TzUtc, TzSpring}
    /\ result = Called("load_ledger", "", "ok")
    /\ session = NoSession
    /\ acc = NoAcc
    /\ file = NoFile
    /\ loaded = NotLoaded
    /\ recent = NoRecent

NextLog == StartTask \/ StopTask

SpecLog == InitLog /\ [][NextLog]_vars

----------------------------------------------------------------------------
(* The event log with manual sessions: Command::Log next to start and stop *)

\* a call that takes a session
SessionCalled(op, task_id, start, stop, value) ==
    [op |-> op, task_id |-> task_id, start |-> start, stop |-> stop, value |-> value]

SessionReturn(op, task_id, start, stop, r) ==
    /\ events' = r.events
    /\ result' = SessionCalled(op, task_id, start, stop, r.value)

AddManualSession ==
    /\ Len(events) + 2 <= MaxEvents
    /\ \E task_id \in TaskInputs, start \in Instants, stop \in Instants :
          SessionReturn("add_manual_session", task_id, start, stop,
                        add_manual_session(tasks, events, task_id, start, stop))
    /\ UNCHANGED <<registry, env, probe, store>>

NextManual == StartTask \/ StopTask \/ AddManualSession

SpecManual == InitLog /\ [][NextManual]_vars

----------------------------------------------------------------------------
(* The event log edited from the day view: the sessions of the selected day
   are listed, and the selected row is retimed or deleted *)

\* build_view lists the rows of the selected day, or panics when a local
\* midnight does not exist
DayRowsOn(selected_day, now) ==
    IF None \in {local_day_bounds_utc(tz, selected_day)[1],
                 local_day_bounds_utc(tz, selected_day)[2]}
    THEN {}
    ELSE build_day_rows(tz, selected_day, collect_sessions(events, now))

\* the rows that can be selected at now, on one day or another
DayRows(now) == UNION {DayRowsOn(selected_day, now) : selected_day \in SelectedDays}

\* the clock time typed, on the local date of the edited end of the row
NextTimestamp(row, day_field, clock) ==
    local_clock_on_date_to_utc(tz,
        LocalDate(tz, IF day_field = "start" THEN row.start ELSE row.stop),
        clock[1], clock[2])

RetimeSession ==
    /\ \E now \in NowInstants :
       \E row \in DayRows(now), day_field \in {"start", "end"},
          clock \in ClockInputs, saved \in BOOLEAN :
          EventsReturn("retime", row.task_id,
                       handle_day_digit_input(events, row, day_field,
                           NextTimestamp(row, day_field, clock), now, saved))
    /\ UNCHANGED <<registry, env, probe, store>>

\* a call on the row selected in the day view
RowCalled(op, row, value) ==
    [op |-> op, task_id |-> row.task_id, row |-> row, value |-> value]

RowReturn(op, row, r) ==
    /\ events' = r.events
    /\ result' = RowCalled(op, row, r.value)

\* the d key on the selected row, then Delete in the confirmation
DeleteInterval ==
    /\ \E now \in NowInstants :
       \E row \in DayRows(now), saved \in BOOLEAN :
          RowReturn("delete_interval", row,
                    delete_interval(events, row.start_event_index,
                                    row.stop_event_index, saved))
    /\ UNCHANGED <<registry, env, probe, store>>

NextRetime == StartTask \/ StopTask \/ RetimeSession

\* the day view reads no day-start offset: its days are cut at local midnight
InitRetime == InitLog /\ tz = TzUtc /\ day_start_offset_hours = 0

SpecRetime == InitRetime /\ [][NextRetime]_vars

NextDelete == StartTask \/ StopTask \/ DeleteInterval

InitDelete == InitLog /\ tz = TzUtc

SpecDelete == InitDelete /\ [][NextDelete]_vars

----------------------------------------------------------------------------
(* accumulate_session on its own: one call per behaviour *)

InitSlice ==
    /\ projects = <<>>
    /\ categories = <<>>
    /\ tasks = <<>>
    /\ events = <<>>
    /\ day_start_offset_hours \in OffsetHours
    /\ tz \in TzRules
    /\ result = Called("load_ledger", "", "ok")
    /\ session = NoSession
    /\ acc = NoAcc
    /\ file = NoFile
    /\ loaded = NotLoaded
    /\ recent = NoRecent

\* totals already in the map when the call is made
BeforeTotals == {NoTotals, <<1, "A">> :> Hour}

AccumulateSession ==
    /\ ~acc.called
    /\ \E start \in SessionInstants, stop \in SessionInstants, before \in BeforeTotals :
          /\ session' = [task_id |-> "A", start |-> start, stop |-> stop,
                         before |-> before]
          /\ acc' = [called |-> TRUE,
                     slices |-> session_slices(tz, start, stop,
                                    day_start_offset(day_start_offset_hours)),
                     out |-> accumulate_session(tz,
                                [daily_task_totals |-> before, panicked |-> FALSE],
                                "A", start, stop,
                                day_start_offset(day_start_offset_hours))]
    /\ UNCHANGED <<registry, events, env, result, store>>

NextSlice == AccumulateSession

SpecSlice == InitSlice /\ [][NextSlice]_vars

\* accumulate_session where local times are skipped: one, two or three hours
\* from midnight on, the day starting at 00:00 or 02:00
InitGap ==
    /\ projects = <<>>
    /\ categories = <<>>
    /\ tasks = <<>>
    /\ events = <<>>
    /\ day_start_offset_hours \in {0, 2}
    /\ tz \in {TzSpringMidnight, TzTwoHourGap, TzLongGap}
    /\ result = Called("load_ledger", "", "ok")
    /\ session = NoSession
    /\ acc = NoAcc
    /\ file = NoFile
    /\ loaded = NotLoaded
    /\ recent = NoRecent

SpecGap == InitGap /\ [][NextSlice]_vars

----------------------------------------------------------------------------
(* The store on its own: a ledger in memory, its file, save_ledger and
   load_ledger *)

\* texts of one, two and three lines, a line of some being the marker's text
Texts ==
    {<<"x">>, <<"x", "y">>, <<MarkerText>>, <<"x", MarkerText>>, <<"x", MarkerText, "y">>}

Notes == {NoText, <<"x", "y">>, <<"x", MarkerText, "y">>}

NoteEvent(event, note) ==
    [timestamp |-> event.timestamp, kind |-> event.kind,
     task_id |-> event.task_id, note |-> note]

\* the ledgers in memory: a project, a category, a task of the project, and
\* a log that start_task and stop_task accept, with a Stop and a Start at
\* one instant
StoredProjects ==
    {<<>>} \cup {<<[id |-> ProjectIdPool[1], name |-> name, color |-> color,
                    archived |-> FALSE]>> : name \in Texts, color \in {NoText, <<"blue">>}}

StoredCategories ==
    {<<>>} \cup {<<[id |-> CategoryIdPool[1], name |-> <<"x">>,
                    description |-> description, archived |-> TRUE]>> :
                 description \in {NoText, <<"x", "y">>}}

StoredTasks(l_projects, l_categories) ==
    {<<>>} \cup {<<[id |-> TaskIdPool[1], project_id |-> project_id,
                    category_id |-> category_id, description |-> description,
                    archived |-> FALSE]>> :
                 project_id \in Ids(l_projects),
                 category_id \in Ids(l_categories) \cup {NoCategory},
                 description \in Texts}

StoredEvents(l_tasks) ==
    {<<>>} \cup
    {<<NoteEvent(TimeEvent_start(task_id, At(1, 23, 59, 59, 0)), note),
       NoteEvent(TimeEvent_stop(task_id, At(2, 0, 0, 0, 1)), NoText),
       NoteEvent(TimeEvent_start(task_id, At(2, 0, 0, 0, 1)), note)>> :
     task_id \in Ids(l_tasks), note \in Notes}

\* created_at of the ledger in memory
CreatedAt == At(1, 0, 0, 0, 0)

CurrentLedger ==
    [header |-> [schema_version |-> 1, created_at |-> CreatedAt,
                 day_start_offset_hours |-> day_start_offset_hours,
                 projects |-> projects, tasks |-> tasks, categories |-> categories],
     events |-> events]

\* the file before the first save: none, an empty one, one of white space
StartFiles ==
    {NoFile, [exists |-> TRUE, lines |-> <<>>],
     [exists |-> TRUE, lines |-> <<BlankLine, BlankLine>>]}

InitStore ==
    /\ projects \in StoredProjects
    /\ categories \in StoredCategories
    /\ tasks \in StoredTasks(projects, categories)
    /\ events \in StoredEvents(tasks)
    /\ day_start_offset_hours \in OffsetHours
    /\ tz = TzUtc
    /\ result = Called("", "", "ok")
    /\ session = NoSession
    /\ acc = NoAcc
    /\ file \in StartFiles
    /\ loaded = NotLoaded
    /\ recent = NoRecent

SaveLedger ==
    /\ file' = save_ledger(CurrentLedger)
    /\ result' = Called("save_ledger", "", "ok")
    /\ UNCHANGED <<registry, events, env, probe, loaded, recent>>

LoadReturn(r) ==
    /\ loaded' = r
    /\ result' = Called("load_ledger", "", r.value)

LoadLedger ==
    /\ \E now \in NowInstants : LoadReturn(load_ledger(file, now))
    /\ UNCHANGED <<registry, events, env, probe, file, recent>>

NextStore == SaveLedger \/ LoadLedger

SpecStore == InitStore /\ [][NextStore]_vars

----------------------------------------------------------------------------
(* The list of recent ledgers on its own: a stored list and remember_ledger
   calls *)

Digits == <<"0", "1", "2", "3", "4", "5", "6", "7", "8", "9">>

\* the path /00, /01, ... of the ledger with the given number
NumberedPath(n) == <<"/", Digits[(n \div 10) + 1], Digits[(n % 10) + 1]>>

NumberedPaths(count) == [n \in 1..count |-> NumberedPath(n)]

\* the lists the file may hold at the start: none, a short one with an empty
\* line, one entry short of full, and full
StoredLists ==
    {NoRecent,
     save_recent_ledgers(<<NumberedPath(1), <<>>, NumberedPath(2)>>),
     save_recent_ledgers(NumberedPaths(MAX_RECENT_LEDGERS - 1)),
     save_recent_ledgers(NumberedPaths(MAX_RECENT_LEDGERS))}

\* the paths given to remember_ledger: two of the list, a new one, a relative
\* one, and one whose file name ends in a space
RememberInputs ==
    {NumberedPath(1), NumberedPath(30), <<"/", "n">>, <<"n">>, <<"/", "n", " ">>}

\* the remember_ledger calls of one run of the model
MaxRemembers == 4

\* calls counts the calls made so far
RememberCalled(path, value, calls) ==
    [op |-> "remember_ledger", path |-> path, value |-> value, calls |-> calls]

InitRecent ==
    /\ projects = <<>>
    /\ categories = <<>>
    /\ tasks = <<>>
    /\ events = <<>>
    /\ day_start_offset_hours = 0
    /\ tz = TzUtc
    /\ result = RememberCalled(<<>>, "not called", 0)
    /\ session = NoSession
    /\ acc = NoAcc
    /\ file = NoFile
    /\ loaded = NotLoaded
    /\ recent \in StoredLists

RememberLedger ==
    /\ result.calls < MaxRemembers
    /\ \E path \in RememberInputs :
          /\ recent' = remember_ledger(recent, path)
          /\ result' = RememberCalled(path, "ok", result.calls + 1)
    /\ UNCHANGED <<registry, events, env, probe, file, loaded>>

NextRecent == RememberLedger

SpecRecent == InitRecent /\ [][NextRecent]_vars

----------------------------------------------------------------------------
(* Properties of start_task and stop_task *)

Archived(l_tasks, task_id) ==
    \E task \in Ledger_task(l_tasks, task_id) : task.archived

Running(task_id) == task_id \in ActiveIds(tz, events, day_start_offset_hours)

StartedAt(task_id) ==
    replayed(tz, events, day_start_offset_hours).active_tasks[task_id].started_at

\* C1 as claimed: start_task on a task that the snapshot of the current log
\* reports as active returns "task already running" and leaves the log as it was.
C1_StartOfRunningTaskSaysRunning ==
    [][(result'.op = "start_task" /\ Running(result'.task_id))
         => (result'.value = "task already running" /\ events' = events)]_vars

\* C1 amended: start_task on a running task appends nothing; it returns
\* "task already running" when the task is not archived and "task is archived"
\* when it is.
C1_StartOfRunningTaskRejected ==
    [][(result'.op = "start_task" /\ Running(result'.task_id))
         => /\ events' = events
            /\ result'.value = IF Archived(tasks, result'.task_id)
                               THEN "task is archived"
                               ELSE "task already running"]_vars

C1_Witness ==
    /\ result = Called("start_task", "A", "task already running")
    /\ Running("A")
    /\ ~Archived(tasks, "A")

\* C2: stop_task on a registered task without an open interval returns "task is
\* not running", stop_task on an unknown id returns "task not found"; the log is
\* unchanged in both cases.
C2_StopOfIdleOrUnknownTaskRejected ==
    [][result'.op = "stop_task"
         => /\ result'.task_id \notin Ids(tasks)
                 => (result'.value = "task not found" /\ events' = events)
            /\ (result'.task_id \in Ids(tasks) /\ ~Running(result'.task_id))
                 => (result'.value = "task is not running" /\ events' = events)]_vars

C2_Witness ==
    /\ result = Called("stop_task", "A", "task is not running")
    /\ \E i \in DOMAIN events : events[i].task_id = "A"
    /\ ~Running("A")

\* C3: start_task returns "task not found" for an id that is not registered and
\* "task is archived" for an archived task, also when that task is running; no
\* event is appended in either case.
C3_StartOfUnknownOrArchivedTaskRejected ==
    [][result'.op = "start_task"
         => /\ result'.task_id \notin Ids(tasks)
                 => (result'.value = "task not found" /\ events' = events)
            /\ Archived(tasks, result'.task_id)
                 => (result'.value = "task is archived" /\ events' = events)]_vars

C3_Witness ==
    /\ result = Called("start_task", "A", "task is archived")
    /\ Running("A")
    /\ Archived(tasks, "A")

\* C4: in a log built by successful start_task and stop_task calls, replay
\* never meets a Start for a task that already holds an open interval.
C4_NoStartWhileOpen ==
    replayed(tz, events, day_start_offset_hours).restarts = 0

\* C5: stop_task appends a Stop only when its timestamp is later than the
\* Start of the open interval it closes; with timestamp <= started_at it
\* returns an error and appends nothing.
C5_StopNotAfterStartRejected ==
    [][(result'.op = "stop_task" /\ events' # events)
         => events'[Len(events')].timestamp > StartedAt(result'.task_id)]_vars

----------------------------------------------------------------------------
(* Properties of accumulate_session *)

\* what the call added for the day: the total after it minus the total before
AddedTo(day) ==
    (IF <<day, session.task_id>> \in DOMAIN acc.out.daily_task_totals
     THEN acc.out.daily_task_totals[<<day, session.task_id>>] ELSE 0)
    - (IF <<day, session.task_id>> \in DOMAIN session.before
       THEN session.before[<<day, session.task_id>>] ELSE 0)

RECURSIVE SumAdded(_)
SumAdded(days) ==
    IF days = {} THEN 0
    ELSE AddedTo(Min(days)) + SumAdded(days \ {Min(days)})

TotalAdded == SumAdded({k[1] : k \in DOMAIN acc.out.daily_task_totals})

Attributed(slice) == slice.slice_end > slice.slice_start

\* C6: the durations accumulate_session adds over all ledger days sum to
\* stop - start, for every session with stop > start, offset and timezone rule.
C6_Conservation ==
    (acc.called /\ session.stop > session.start)
        => TotalAdded = session.stop - session.start

\* C7: the slices accumulate_session attributes to two different ledger days
\* of one session are disjoint intervals.
C7_SlicesDisjoint ==
    acc.called =>
        \A i, j \in DOMAIN acc.slices :
            (acc.slices[i].day # acc.slices[j].day
                /\ Attributed(acc.slices[i]) /\ Attributed(acc.slices[j]))
            => \/ acc.slices[i].slice_end <= acc.slices[j].slice_start
               \/ acc.slices[j].slice_end <= acc.slices[i].slice_start

C7_Witness ==
    /\ acc.called
    /\ tz # TzUtc
    /\ \E i, j \in DOMAIN acc.slices :
          /\ acc.slices[i].day # acc.slices[j].day
          /\ Attributed(acc.slices[i]) /\ Attributed(acc.slices[j])

\* the calendar date of the session's start, and the scenario of C10: day-start
\* offset 4 hours, a session from 02:00 to 05:00 local of that date, 3 hours long
CalendarDate == NaiveLocal(tz, session.start) \div Day

NightSession ==
    /\ acc.called
    /\ day_start_offset_hours = 4
    /\ NaiveLocal(tz, session.start) = CalendarDate * Day + 2 * Hour
    /\ NaiveLocal(tz, session.stop) = CalendarDate * Day + 5 * Hour
    /\ session.stop - session.start = 3 * Hour

----------------------------------------------------------------------------
(* Properties of snapshot *)

Snapshots(evs, now) ==
    {snapshot(tz, evs, day_start_offset_hours, now, order) :
        order \in IterOrders(ActiveIds(tz, evs, day_start_offset_hours))}

\* C8: for a fixed ledger and a fixed now, snapshot returns the same active
\* tasks and the same day totals whatever the order in which the map of active
\* tasks is iterated.
C8_SnapshotDeterministic ==
    \A now \in Instants : Cardinality(Snapshots(events, now)) = 1

C8_Witness ==
    /\ ActiveIds(tz, events, day_start_offset_hours) = {"A", "B"}
    /\ \E now \in Instants : \E snap \in Snapshots(events, now), day \in 1..3 :
          {<<day, "A">>, <<day, "B">>} \subseteq DOMAIN snap.daily_task_totals

\* the log without the events of a task
EventsWithout(evs, task_id) == SelectSeq(evs, LAMBDA event : event.task_id # task_id)

\* what a snapshot reports for one task
TaskView(snap, task_id) ==
    [active |-> {snap.active_tasks[a] : a \in {task_id} \cap DOMAIN snap.active_tasks},
     totals |-> [k \in {k \in DOMAIN snap.daily_task_totals : k[2] = task_id} |->
                    snap.daily_task_totals[k]]]

TaskViews(evs, now, task_id) ==
    {TaskView(snap, task_id) : snap \in Snapshots(evs, now)}

\* C9: for two distinct tasks A and B, what snapshot reports for A (active
\* state and day totals) is what it reports from the log without B's events.
C9_TasksIndependent ==
    \A a, b \in Range(TaskIdPool) :
        a # b => \A now \in Instants :
                    TaskViews(events, now, a) = TaskViews(EventsWithout(events, b), now, a)

C9_Witness ==
    /\ \E i, j, k \in DOMAIN events :
          /\ i < j /\ j < k
          /\ events[i].task_id = "A" /\ events[j].task_id = "B"
          /\ events[k].task_id = "A"
    /\ \E now \in Instants : \E view \in TaskViews(events, now, "A") :
          DOMAIN view.totals # {}

----------------------------------------------------------------------------
(* A session across one day boundary *)

StartDay ==
    ledger_day_for_timestamp(tz, session.start, day_start_offset(day_start_offset_hours))

StopDay ==
    ledger_day_for_timestamp(tz, session.stop, day_start_offset(day_start_offset_hours))

\* the boundary between the day of the start and the next day
Boundary ==
    ledger_day_bounds_utc(tz, StartDay, day_start_offset(day_start_offset_hours))[2]

----------------------------------------------------------------------------
(* Properties of add_manual_session *)

LiveStart(evs, task_id) ==
    replayed(tz, evs, day_start_offset_hours).active_tasks[task_id].started_at

\* C13: a successful add_manual_session for a task with an open live interval
\* leaves the task active with the same started_at, wherever the manual range
\* lies relative to the live Start.
C13_ManualSessionKeepsTimer ==
    [][(result'.op = "add_manual_session" /\ result'.value = "ok"
            /\ Running(result'.task_id))
         => /\ result'.task_id \in ActiveIds(tz, events', day_start_offset_hours)
            /\ LiveStart(events', result'.task_id) = LiveStart(events, result'.task_id)]_vars

----------------------------------------------------------------------------
(* Properties of the registry *)

\* C14: add_task returns "project not found" when project_id is not registered,
\* and "category not found" when the project is registered and a category id is
\* given that is not registered; in both cases the task list is unchanged. On
\* success the task list grows by exactly one task, with archived = FALSE.
C14_AddTaskChecksReferences ==
    [][result'.op = "add_task"
         => /\ result'.project_id \notin Ids(projects)
                 => (result'.value = "project not found" /\ tasks' = tasks)
            /\ (result'.project_id \in Ids(projects)
                  /\ result'.category_id # NoCategory
                  /\ result'.category_id \notin Ids(categories))
                 => (result'.value = "category not found" /\ tasks' = tasks)
            /\ result'.value # "ok" => tasks' = tasks
            /\ result'.value = "ok"
                 => /\ Len(tasks') = Len(tasks) + 1
                    /\ SubSeq(tasks', 1, Len(tasks)) = tasks
                    /\ tasks'[Len(tasks')] =
                          [id |-> result'.task_id, project_id |-> result'.project_id,
                           category_id |-> result'.category_id, archived |-> FALSE]]_vars

C14_Witness ==
    /\ result.op = "add_task"
    /\ result.value = "category not found"
    /\ result.project_id \in Ids(projects)
    /\ categories # <<>>
    /\ tasks # <<>>

\* C15: every task's project_id is the id of a project of the registry, and
\* every task's category_id, when set, is the id of a category of the registry.
C15_ReferentialIntegrity ==
    \A i \in DOMAIN tasks :
        /\ tasks[i].project_id \in Ids(projects)
        /\ tasks[i].category_id # NoCategory => tasks[i].category_id \in Ids(categories)

C15_Witness ==
    /\ result.op = "submit_edit_task"
    /\ result.value = "ok"
    /\ \E i \in DOMAIN tasks :
          /\ tasks[i].id = result.task_id
          /\ tasks[i].category_id = "c1"
          /\ tasks[i].archived
    /\ \E i \in DOMAIN projects : projects[i].archived

----------------------------------------------------------------------------
(* Properties of retiming *)

\* event i comes before event j in the order (timestamp, index)
Before(evs, i, j) ==
    \/ evs[i].timestamp < evs[j].timestamp
    \/ evs[i].timestamp = evs[j].timestamp /\ i < j

\* the Stop events of the task before event i, and its Start events after it
StopsBefore(evs, task_id, i) ==
    {j \in DOMAIN evs : evs[j].task_id = task_id /\ evs[j].kind = "stop"
                        /\ Before(evs, j, i)}

StartsAfter(evs, task_id, i) ==
    {j \in DOMAIN evs : evs[j].task_id = task_id /\ evs[j].kind = "start"
                        /\ Before(evs, i, j)}

\* the previous Stop is the last of StopsBefore and the next Start the first of
\* StartsAfter: a timestamp is earlier than the previous Stop's when it is
\* earlier than that of some Stop before, and later than the next Start's when
\* it is later than that of some Start after
EarlierThanPreviousStop(evs, row, timestamp) ==
    \E j \in StopsBefore(evs, row.task_id, row.start_event_index) :
        timestamp < evs[j].timestamp

LaterThanNextStart(evs, row, timestamp) ==
    \E j \in StartsAfter(evs, row.task_id, row.stop_event_index) :
        timestamp > evs[j].timestamp

\* C16: a retime of the Start of a row to a timestamp that is >= the row's stop,
\* or earlier than the previous Stop of the same task in the order (timestamp,
\* index), is rejected and the log is left as it was.
C16_RetimeStartRejected ==
    \A now \in NowInstants :
    \A row \in DayRows(now), clock \in ClockInputs, saved \in BOOLEAN :
        (/\ NextTimestamp(row, "start", clock) # None
         /\ \/ NextTimestamp(row, "start", clock) >= row.stop
            \/ EarlierThanPreviousStop(events, row, NextTimestamp(row, "start", clock)))
        => /\ handle_day_digit_input(events, row, "start",
                  NextTimestamp(row, "start", clock), now, saved).events = events
           /\ handle_day_digit_input(events, row, "start",
                  NextTimestamp(row, "start", clock), now, saved).value
                \in {"start must be before end",
                     "start cannot be before previous stop for this task"}

C16_Witness ==
    /\ result = Called("retime", "A", "start cannot be before previous stop for this task")
    /\ \E now \in NowInstants : \E row \in DayRows(now), clock \in ClockInputs :
          /\ row.task_id = "A"
          /\ NextTimestamp(row, "start", clock) < row.stop
          /\ EarlierThanPreviousStop(events, row, NextTimestamp(row, "start", clock))

\* C17: a retime of the Stop of a row to a timestamp that is <= the row's start,
\* or later than now, or later than the next Start of the same task in the
\* order (timestamp, index), is rejected and the log is left as it was; the end
\* of a row without a Stop event (a running session) is never retimed.
C17_RetimeStopRejected ==
    \A now \in NowInstants :
    \A row \in DayRows(now), clock \in ClockInputs, saved \in BOOLEAN :
        /\ (/\ NextTimestamp(row, "end", clock) # None
            /\ row.stop_event_index # NoIndex
            /\ \/ NextTimestamp(row, "end", clock) <= row.start
               \/ NextTimestamp(row, "end", clock) > now
               \/ LaterThanNextStart(events, row, NextTimestamp(row, "end", clock)))
           => /\ handle_day_digit_input(events, row, "end",
                     NextTimestamp(row, "end", clock), now, saved).events = events
              /\ handle_day_digit_input(events, row, "end",
                     NextTimestamp(row, "end", clock), now, saved).value
                   \in {"end must be after start",
                        "end cannot be later than current time",
                        "end cannot be after following start for this task"}
        /\ row.stop_event_index = NoIndex
           => /\ handle_day_digit_input(events, row, "end",
                     NextTimestamp(row, "end", clock), now, saved).events = events
              /\ handle_day_digit_input(events, row, "end",
                     NextTimestamp(row, "end", clock), now, saved).value
                   \in {"session end cannot be edited while task is running",
                        "selected local time does not exist"}

C17_Witness ==
    /\ result = Called("retime", "A", "end cannot be after following start for this task")
    /\ \E now \in NowInstants : \E row \in DayRows(now), clock \in ClockInputs :
          /\ row.task_id = "A"
          /\ row.stop_event_index # NoIndex
          /\ NextTimestamp(row, "end", clock) > row.start
          /\ NextTimestamp(row, "end", clock) <= now
          /\ LaterThanNextStart(events, row, NextTimestamp(row, "end", clock))

\* replay of the log in the order (timestamp, index): a Start opens the task's
\* interval (in place of one already open), a Stop closes the open interval
RECURSIVE PairUp(_, _)
PairUp(st, sorted) ==
    IF sorted = <<>> THEN st
    ELSE PairUp(
            IF Head(sorted).kind = "start"
            THEN [st EXCEPT !.open =
                     [t \in DOMAIN @ \cup {Head(sorted).task_id} |->
                         IF t = Head(sorted).task_id THEN Head(sorted).index ELSE @[t]]]
            ELSE IF Head(sorted).task_id \in DOMAIN st.open
            THEN [open |-> Without(st.open, Head(sorted).task_id),
                  pairs |-> st.pairs \cup
                               {<<st.open[Head(sorted).task_id], Head(sorted).index>>}]
            ELSE st,
            Tail(sorted))

\* the <<Start index, Stop index>> pairs replay makes, and the Starts left open
Pairing(evs) ==
    PairUp([open |-> <<>>, pairs |-> {}], sort_by_timestamp_then_index(Indexed(evs)))

\* C18: a retime that is accepted leaves the pairing of Start and Stop events
\* as it was: replay of the log after the edit pairs the same events, by index,
\* as replay of the log before it.
C18_RetimeKeepsPairing ==
    [][(result'.op = "retime" /\ events' # events)
         => Pairing(events') = Pairing(events)]_vars

----------------------------------------------------------------------------
(* Properties of deleting an interval *)

\* the log without the events at the indices in S, the others in their order
RECURSIVE KeepOthers(_, _)
KeepOthers(evs, S) ==
    IF evs = <<>> THEN <<>>
    ELSE KeepOthers(SubSeq(evs, 1, Len(evs) - 1), S)
         \o (IF Len(evs) \in S THEN <<>> ELSE <<evs[Len(evs)]>>)

Deleted(r) == r.op = "delete_interval" /\ r.value \in {"deleted interval", "save failed"}

\* C19: deleting a closed interval removes its Start event and its Stop event
\* and nothing else: the log gets shorter by two and the other events keep
\* their content and their order.
C19_DeleteRemovesStartAndStop ==
    [][(Deleted(result') /\ result'.row.stop_event_index # NoIndex)
         => /\ Len(events') = Len(events) - 2
            /\ events' = KeepOthers(events, {result'.row.start_event_index,
                                             result'.row.stop_event_index})]_vars

C19_Witness ==
    /\ Deleted(result)
    /\ result.row.stop_event_index > result.row.start_event_index + 1
    /\ events # <<>>

\* the instants at which the snapshots around a delete are compared: any now
\* for a closed interval, the now of the row for an interval still open
CompareAt(row) == IF row.stop_event_index = NoIndex THEN {row.stop} ELSE NowInstants

\* the day totals of a task with the day slices of the row added to them
WithRowSlices(totals, row) ==
    AddSlices([daily_task_totals |-> totals, panicked |-> FALSE], row.task_id,
              session_slices(tz, row.start, row.stop,
                             day_start_offset(day_start_offset_hours))).daily_task_totals

\* C20: after an interval of a task is deleted, the snapshot of the log reports
\* for the task the day totals it reported before minus the day slices of the
\* deleted interval, and deleting a closed interval leaves the task's active
\* state as it was.
C20_DeleteRemovesDuration ==
    [][Deleted(result')
         => \A now \in CompareAt(result'.row) :
            \A before \in TaskViews(events, now, result'.task_id),
               after \in TaskViews(events', now, result'.task_id) :
                /\ WithRowSlices(after.totals, result'.row) = before.totals
                /\ result'.row.stop_event_index # NoIndex
                     => after.active = before.active]_vars

\* C21: deleting an interval that is still open removes its Start event and
\* nothing else: the log gets shorter by one and the other events keep their
\* content and their order.
C21_DeleteOpenRemovesStart ==
    [][(Deleted(result') /\ result'.row.stop_event_index = NoIndex)
         => /\ Len(events') = Len(events) - 1
            /\ events' = KeepOthers(events, {result'.row.start_event_index})]_vars

\* an open interval was deleted whose Start had events before and after it
C21_Witness ==
    /\ Deleted(result)
    /\ result.row.stop_event_index = NoIndex
    /\ result.row.start_event_index > 1
    /\ result.row.start_event_index <= Len(events)

----------------------------------------------------------------------------
(* Operations that fail *)

\* the values an operation returns on success; any other value is an error
Succeeded == {"ok", "deleted interval", "updated start", "updated end"}

Failed(r) == r.value \notin Succeeded

\* C22: an operation that reports an error, the error of the save step after a
\* passed validation included, leaves projects, categories, tasks and events
\* exactly as they were before the call.
C22_FailedOperationLeavesLedger ==
    [][Failed(result')
         => /\ events' = events
            /\ projects' = projects
            /\ categories' = categories
            /\ tasks' = tasks]_vars

----------------------------------------------------------------------------
(* Properties of the store *)

Blank(f) == f.exists /\ \A i \in DOMAIN f.lines : f.lines[i].t = "blank"

\* C23: load_ledger of a file that does not exist, or that is empty or holds
\* only white space, returns without error a ledger with schema_version 1,
\* day-start offset 0 and no projects, categories, tasks or events.
C23_LoadOfNothingIsNewLedger ==
    (result.op = "load_ledger" /\ (~file.exists \/ Blank(file)))
        => /\ loaded.value = "ok"
           /\ loaded.header.schema_version = 1
           /\ loaded.header.day_start_offset_hours = 0
           /\ loaded.header.projects = <<>>
           /\ loaded.header.categories = <<>>
           /\ loaded.header.tasks = <<>>
           /\ loaded.events = <<>>

\* a file of white space was loaded while the ledger in memory held a task
C23_Witness ==
    /\ result = Called("load_ledger", "", "ok")
    /\ Blank(file)
    /\ file.lines # <<>>
    /\ tasks # <<>>
    /\ loaded.header.tasks = <<>>

\* C24: load_ledger of the file save_ledger wrote for a ledger returns a
\* ledger with the same projects, categories and tasks, field by field, and
\* the same events in the same order, whatever the text fields hold.
C24_RoundTrip ==
    (result.op = "load_ledger" /\ file = save_ledger(CurrentLedger))
        => /\ loaded.value = "ok"
           /\ loaded.header.projects = projects
           /\ loaded.header.categories = categories
           /\ loaded.header.tasks = tasks
           /\ loaded.events = events

----------------------------------------------------------------------------
(* Properties of the day-boundary resolver *)

\* the days whose boundaries the sessions of the model touch
BoundaryDays == 1..4

\* the local wall-clock time at which a ledger day starts
BoundaryNaive(day) == day * Day + day_start_offset(day_start_offset_hours)

\* the UTC instants that read as that local time
BoundaryInstants(day) == from_local_datetime(tz, BoundaryNaive(day))

StartBound(day) ==
    ledger_day_bounds_utc(tz, day, day_start_offset(day_start_offset_hours))[1]

\* C25: when the start of a ledger day is a local time that two UTC instants
\* map to, the bound computed for it is the earlier of the two instants.
C25_AmbiguousBoundaryIsEarlier ==
    \A day \in BoundaryDays :
        Cardinality(BoundaryInstants(day)) = 2
            => /\ StartBound(day) \in BoundaryInstants(day)
               /\ \A u \in BoundaryInstants(day) : StartBound(day) <= u

\* a session was sliced on a day that starts at an ambiguous local time, and
\* its slice starts between the two instants
C25_Witness ==
    /\ acc.called
    /\ \E i \in DOMAIN acc.slices :
          /\ Cardinality(BoundaryInstants(acc.slices[i].day)) = 2
          /\ Attributed(acc.slices[i])
          /\ \E u \in BoundaryInstants(acc.slices[i].day) : acc.slices[i].slice_start < u

\* the probes that resolve: k minutes after the boundary, k from 0 to 120
Resolving(day) ==
    {k \in 0..ProbeLimit :
        from_local_datetime(tz, BoundaryNaive(day) + k * Minute) # {}}

\* C26: when the start of a ledger day is a local time that does not exist,
\* the bound is the UTC instant of the first local time, going forward minute by
\* minute for at most 120 minutes, that exists; when none of them exists the
\* computation panics and returns no instant.
C26_NonexistentBoundaryProbed ==
    \A day \in BoundaryDays :
        BoundaryInstants(day) = {}
            => StartBound(day) =
                  IF Resolving(day) = {} THEN Panic
                  ELSE Min(from_local_datetime(tz,
                              BoundaryNaive(day) + Min(Resolving(day)) * Minute))

\* a session was sliced on a day whose start does not exist and was found by
\* the last probe of the loop
C26_Witness ==
    /\ acc.called
    /\ \E i \in DOMAIN acc.slices :
          /\ BoundaryInstants(acc.slices[i].day) = {}
          /\ Resolving(acc.slices[i].day) # {}
          /\ Min(Resolving(acc.slices[i].day)) = ProbeLimit
          /\ Attributed(acc.slices[i])
          /\ acc.slices[i].slice_start = StartBound(acc.slices[i].day)

----------------------------------------------------------------------------
(* Properties of totals_for_day *)

\* the days asked for: those of the sessions of the model, and days without any
TotalDays == 0..4

\* the list names each task with a total on the day once, with that total
ListsTotals(list, daily_task_totals, day) ==
    /\ Len(list) = Cardinality(TasksOn(daily_task_totals, day))
    /\ {list[i].task_id : i \in DOMAIN list} = TasksOn(daily_task_totals, day)
    /\ \A i \in DOMAIN list : list[i].duration = daily_task_totals[<<day, list[i].task_id>>]

\* the longer duration first, and the lower task id first among equal durations
DurationDescendingThenId(list) ==
    \A i, j \in DOMAIN list :
        i < j => \/ list[i].duration > list[j].duration
                 \/ list[i].duration = list[j].duration
                      /\ TaskRank(list[i].task_id) < TaskRank(list[j].task_id)

\* C27: totals_for_day(day) lists each task that has a total on the day once,
\* by duration descending and task id ascending among equal durations, in
\* whatever order the day's map is iterated; for a day without totals the list
\* is empty.
C27_TotalsForDaySorted ==
    \A now \in Instants : \A snap \in Snapshots(events, now) : \A day \in TotalDays :
        /\ \A order \in IterOrders(TasksOn(snap.daily_task_totals, day)) :
              /\ ListsTotals(totals_for_day(snap.daily_task_totals, day, order),
                             snap.daily_task_totals, day)
              /\ DurationDescendingThenId(
                     totals_for_day(snap.daily_task_totals, day, order))
        /\ TasksOn(snap.daily_task_totals, day) = {}
              => totals_for_day(snap.daily_task_totals, day, <<>>) = <<>>

\* a snapshot in which two tasks hold equal totals on one day, and unequal
\* totals on another
C27_Witness ==
    \E now \in Instants : \E snap \in Snapshots(events, now) :
        /\ \E day \in TotalDays :
              /\ TasksOn(snap.daily_task_totals, day) = {"A", "B"}
              /\ snap.daily_task_totals[<<day, "A">>] = snap.daily_task_totals[<<day, "B">>]
        /\ \E day \in TotalDays :
              /\ TasksOn(snap.daily_task_totals, day) = {"A", "B"}
              /\ snap.daily_task_totals[<<day, "A">>] < snap.daily_task_totals[<<day, "B">>]

----------------------------------------------------------------------------
(* The log under start_task and stop_task *)

\* what an operation returned is the log with the event appended when it
\* succeeded, and the log as it was when it did not
AppendsOnSuccess(r, event) ==
    r.events = IF r.value = "ok" THEN Append(events, event) ELSE events

\* C28: a successful start_task or stop_task appends exactly one event, a Start
\* resp. a Stop with the task id and the timestamp given, at the end of the
\* log; the events before it keep their content and position, and projects,
\* categories and tasks are unchanged.
C28_AppendOnly ==
    /\ [](\A task_id \in TaskInputs, timestamp \in Instants :
            \A order \in IterOrders(ActiveIds(tz, events, day_start_offset_hours)) :
               /\ AppendsOnSuccess(start_task(tz, tasks, events, day_start_offset_hours,
                                              task_id, timestamp, order),
                                   TimeEvent_start(task_id, timestamp))
               /\ AppendsOnSuccess(stop_task(tz, tasks, events, day_start_offset_hours,
                                             task_id, timestamp, order),
                                   TimeEvent_stop(task_id, timestamp)))
    /\ [][(result'.op \in {"start_task", "stop_task"} /\ result'.value = "ok")
            => /\ Len(events') = Len(events) + 1
               /\ SubSeq(events', 1, Len(events)) = events
               /\ events'[Len(events')].task_id = result'.task_id
               /\ events'[Len(events')].kind =
                     (IF result'.op = "start_task" THEN "start" ELSE "stop")
               /\ projects' = projects
               /\ categories' = categories
               /\ tasks' = tasks]_vars

\* a Stop was appended after an event with a later timestamp
C28_Witness ==
    /\ result = Called("stop_task", "A", "ok")
    /\ Len(events) = 3
    /\ events[3] = TimeEvent_stop("A", At(1, 23, 59, 59, 0))
    /\ events[2].timestamp > events[3].timestamp

----------------------------------------------------------------------------
(* Properties of the replay order *)

\* the orders of the indices of the log that follow (timestamp, index)
ReplayOrders(evs) ==
    {perm \in IterOrders(DOMAIN evs) :
        \A i, j \in DOMAIN perm : i < j => Before(evs, perm[i], perm[j])}

\* the indices of the events of a task, and the one replayed last
EventsOf(evs, task_id) == {i \in DOMAIN evs : evs[i].task_id = task_id}

LastOf(evs, indices) ==
    CHOOSE i \in indices : \A j \in indices \ {i} : Before(evs, j, i)

EndsWithStart(evs, indices) ==
    indices # {} /\ evs[LastOf(evs, indices)].kind = "start"

\* C29: replay is in the order (timestamp, index in the log), in snapshot and
\* in collect_sessions alike, so events with equal timestamps are replayed in
\* their log order; a task holds an open interval after replay exactly when
\* the last of its events in that order is a Start, which for a Start and a
\* Stop at the same instant is decided by their order in the log
C29_ReplayOrder ==
    /\ ReplayOrders(events) # {}
    /\ \A perm \in ReplayOrders(events) :
          /\ sort_by_key(events) = [i \in DOMAIN events |-> events[perm[i]]]
          /\ [i \in DOMAIN events |->
                sort_by_timestamp_then_index(Indexed(events))[i].index] = perm
    /\ \A task_id \in Range(TaskIdPool) :
          /\ task_id \in ActiveIds(tz, events, day_start_offset_hours)
                <=> EndsWithStart(events, EventsOf(events, task_id))
          /\ task_id \in DOMAIN ClosedSessions(events).active
                <=> EndsWithStart(events, EventsOf(events, task_id))

\* a Start, a Stop and a Start of one task at one instant: the first two are
\* paired, the third holds the interval open
C29_Witness ==
    /\ Len(events) = 3
    /\ events[1] = TimeEvent_start("A", At(2, 0, 0, 0, 1))
    /\ events[2] = TimeEvent_stop("A", At(2, 0, 0, 0, 1))
    /\ events[3] = TimeEvent_start("A", At(2, 0, 0, 0, 1))
    /\ "A" \in ActiveIds(tz, events, day_start_offset_hours)

----------------------------------------------------------------------------
(* Properties of the open intervals in snapshot *)

SnapshotInstants == Instants \cup NowInstants

TotalIn(daily_task_totals, key) ==
    IF key \in DOMAIN daily_task_totals THEN daily_task_totals[key] ELSE 0

\* what the totals of the task grew by, over the given (day, task) keys
RECURSIVE Grown(_, _, _)
Grown(before, after, keys) ==
    IF keys = {} THEN 0
    ELSE (TotalIn(after, CHOOSE k \in keys : TRUE)
             - TotalIn(before, CHOOSE k \in keys : TRUE))
         + Grown(before, after, keys \ {CHOOSE k \in keys : TRUE})

KeysOf(daily_task_totals, task_id) ==
    {k \in DOMAIN daily_task_totals : k[2] = task_id}

\* the open intervals are reported as replay left them
OpenReported(st, snap) == snap.active_tasks = st.active_tasks

\* each open interval added now - started_at, or nothing when now <= started_at
OpenAdded(st, snap, now) ==
    \A task_id \in DOMAIN st.active_tasks :
        Grown(st.daily_task_totals, snap.daily_task_totals,
              KeysOf(snap.daily_task_totals, task_id))
          = IF now > st.active_tasks[task_id].started_at
            THEN now - st.active_tasks[task_id].started_at
            ELSE 0

\* C30: whatever now is, snapshot reports every task that holds an open
\* interval after replay, and the day totals of such a task grow by
\* now - started_at when now > started_at and by nothing when
\* now <= started_at.
C30_OpenIntervals ==
    \A now \in SnapshotInstants :
        \A order \in IterOrders(ActiveIds(tz, events, day_start_offset_hours)) :
            /\ OpenReported(replayed(tz, events, day_start_offset_hours),
                            snapshot(tz, events, day_start_offset_hours, now, order))
            /\ OpenAdded(replayed(tz, events, day_start_offset_hours),
                         snapshot(tz, events, day_start_offset_hours, now, order), now)

----------------------------------------------------------------------------
(* Properties of the replay of one event *)

\* the events of the task of event i that come after it in replay order
LaterOf(evs, i) ==
    {j \in DOMAIN evs : evs[j].task_id = evs[i].task_id /\ Before(evs, i, j)}

FirstOf(evs, indices) ==
    CHOOSE i \in indices : \A j \in indices \ {i} : Before(evs, i, j)

\* event i is a Start and the next event of its task in replay order is a
\* Start too: replay meets the second one while the interval of i is open
Superseded(evs, i) ==
    /\ evs[i].kind = "start"
    /\ LaterOf(evs, i) # {}
    /\ evs[FirstOf(evs, LaterOf(evs, i))].kind = "start"

SameOutcome(left, right) ==
    /\ left.active_tasks = right.active_tasks
    /\ left.daily_task_totals = right.daily_task_totals

\* C31: a Start met while its task holds an open interval replaces the
\* started_at of the interval: an open interval after replay starts at the
\* last Start of its task, and the log replays to the same open intervals and
\* the same day totals as the log without the earlier Start, so the time
\* between the two Starts is in no day total.
C31_LastStartWins ==
    /\ \A task_id \in ActiveIds(tz, events, day_start_offset_hours) :
          replayed(tz, events, day_start_offset_hours).active_tasks[task_id].started_at
             = events[LastOf(events, EventsOf(events, task_id))].timestamp
    /\ \A i \in DOMAIN events :
          Superseded(events, i)
             => SameOutcome(replayed(tz, events, day_start_offset_hours),
                            replayed(tz, RemoveAt(events, i), day_start_offset_hours))

\* Start at 23:59:59, Start at 00:00:00 and a tick, Stop at 05:00 in replay
\* order: the day totals hold the time from the second Start to the Stop
C31_Witness ==
    /\ events = <<TimeEvent_start("A", At(2, 0, 0, 0, 1)),
                  TimeEvent_stop("A", At(2, 5, 0, 0, 0)),
                  TimeEvent_start("A", At(1, 23, 59, 59, 0))>>
    /\ Superseded(events, 3)
    /\ tz = TzUtc /\ day_start_offset_hours = 0
    /\ replayed(tz, events, day_start_offset_hours).daily_task_totals
         = (<<2, "A">> :> (At(2, 5, 0, 0, 0) - At(2, 0, 0, 0, 1)))

\* the state of replay before the k-th event in replay order, and that event
ReplayedBefore(k) ==
    Replay(tz, day_start_offset(day_start_offset_hours), ReplayStart,
           SubSeq(sort_by_key(events), 1, k - 1))

ReplayedEvent(k) == sort_by_key(events)[k]

\* event i is a Stop and its task holds no open interval when replay meets it
Orphan(evs, i) ==
    /\ evs[i].kind = "stop"
    /\ \A j \in EventsOf(evs, evs[i].task_id) :
          Before(evs, j, i) /\ evs[j].kind = "start"
             => \E k \in EventsOf(evs, evs[i].task_id) :
                   Before(evs, j, k) /\ Before(evs, k, i) /\ evs[k].kind = "stop"

StopOfNothing(st, event) ==
    event.task_id \notin DOMAIN st.active_tasks
        => ReplayEvent(tz, day_start_offset(day_start_offset_hours), st, event) = st

StopAtStart(st, after, event) ==
    (/\ event.task_id \in DOMAIN st.active_tasks
     /\ event.timestamp = st.active_tasks[event.task_id].started_at)
        => /\ after.active_tasks = Without(st.active_tasks, event.task_id)
           /\ after.daily_task_totals = st.daily_task_totals

\* C32: a Stop replayed for a task without an open interval leaves the open
\* intervals and the day totals as they are, so the log replays as the log
\* without that Stop; a Stop at the instant of the Start of the open interval
\* closes the interval and leaves every day total, and the set of their
\* entries, as it is.
C32_StopWithoutEffect ==
    /\ \A k \in DOMAIN events :
          ReplayedEvent(k).kind = "stop"
             => /\ StopOfNothing(ReplayedBefore(k), ReplayedEvent(k))
                /\ StopAtStart(ReplayedBefore(k), ReplayedBefore(k + 1), ReplayedEvent(k))
    /\ \A i \in DOMAIN events :
          Orphan(events, i)
             => SameOutcome(replayed(tz, events, day_start_offset_hours),
                            replayed(tz, RemoveAt(events, i), day_start_offset_hours))

\* in replay order: a Stop of A before any Start, a Start, a Stop at the
\* instant of that Start
C32_Witness ==
    /\ events = <<TimeEvent_start("A", At(2, 0, 0, 0, 1)),
                  TimeEvent_stop("A", At(1, 23, 59, 59, 0)),
                  TimeEvent_stop("A", At(2, 0, 0, 0, 1))>>
    /\ Orphan(events, 2)
    /\ ~Orphan(events, 3)
    /\ replayed(tz, events, day_start_offset_hours).active_tasks = NoActive
    /\ replayed(tz, events, day_start_offset_hours).daily_task_totals = NoTotals

----------------------------------------------------------------------------
(* Properties of the ledger days *)

Within(timestamp, bounds) ==
    /\ Panic \notin {bounds[1], bounds[2]}
    /\ bounds[1] <= timestamp
    /\ timestamp < bounds[2]

\* C33: every instant lies within the bounds of its own ledger day: with
\* d = ledger_day_for_timestamp(t) and (s, e) = ledger_day_bounds_utc(d),
\* s <= t < e, for every day-start offset and timezone rule.
C33_DayHoldsItsInstants ==
    \A timestamp \in (IF acc.called THEN {session.start, session.stop} ELSE {}) :
        Within(timestamp,
               ledger_day_bounds_utc(
                   tz,
                   ledger_day_for_timestamp(tz, timestamp,
                                            day_start_offset(day_start_offset_hours)),
                   day_start_offset(day_start_offset_hours)))

EndBound(day) ==
    ledger_day_bounds_utc(tz, day, day_start_offset(day_start_offset_hours))[2]

\* C34: the ledger days tile the time line: whenever ledger_day_bounds_utc
\* returns for a day, its start is before its end, and the end it returns for
\* day d is the start it returns for day d + 1.
C34_DaysTile ==
    \A day \in BoundaryDays :
        /\ Panic \notin {StartBound(day), EndBound(day)}
              => StartBound(day) < EndBound(day)
        /\ EndBound(day) = StartBound(day + 1)

\* a session over the midnight that the clocks skip: the slice of day 1 ends
\* where the slice of day 2 starts, at the instant the probes found, and day 2
\* is an hour short
C34_Witness ==
    /\ acc.called
    /\ tz = TzSpringMidnight
    /\ day_start_offset_hours = 0
    /\ Len(acc.slices) = 2
    /\ acc.slices[1].day = 1 /\ acc.slices[2].day = 2
    /\ acc.slices[1].slice_end = EndBound(1)
    /\ acc.slices[2].slice_start = StartBound(2)
    /\ acc.slices[1].slice_end = acc.slices[2].slice_start
    /\ EndBound(2) - StartBound(2) = Day - Hour

----------------------------------------------------------------------------
(* Properties of the active tasks *)

\* value is the answer given exactly when the task is active in the whole
\* log, among the answers that depend on it
Decides(value, if_active, if_idle, active) ==
    value \in {if_active, if_idle} => (value = if_active <=> active)

\* C35: the active tasks of snapshot(now) are those the replay of the whole
\* log leaves, whatever now is, events later than now included; start_task
\* and stop_task at any instant answer "task already running" and "task is
\* not running" by the whole log.
C35_ActiveFromWholeLog ==
    \A now \in SnapshotInstants :
        \A order \in IterOrders(ActiveIds(tz, events, day_start_offset_hours)) :
            /\ snapshot(tz, events, day_start_offset_hours, now, order).active_tasks
                  = replayed(tz, events, day_start_offset_hours).active_tasks
            /\ \A task_id \in TaskInputs :
                  /\ Decides(start_task(tz, tasks, events, day_start_offset_hours,
                                        task_id, now, order).value,
                             "task already running", "ok",
                             task_id \in ActiveIds(tz, events, day_start_offset_hours))
                  /\ Decides(stop_task(tz, tasks, events, day_start_offset_hours,
                                       task_id, now, order).value,
                             "ok", "task is not running",
                             task_id \in ActiveIds(tz, events, day_start_offset_hours))

\* start_task for A was refused at an instant up to which the log holds no
\* open interval of A: the Start that opens it is later
C35_Witness ==
    /\ result = Called("start_task", "A", "task already running")
    /\ "A" \in ActiveIds(tz, events, day_start_offset_hours)
    /\ \E timestamp \in Instants :
          /\ "A" \notin ActiveIds(tz, EventsUpTo(events, timestamp), day_start_offset_hours)
          /\ \A order \in IterOrders(ActiveIds(tz, events, day_start_offset_hours)) :
                start_task(tz, tasks, events, day_start_offset_hours,
                           "A", timestamp, order).value = "task already running"

\* the last event of the task in the log, which start_task or stop_task
\* appended at its latest success for the task
LatestOf(evs, task_id) ==
    evs[CHOOSE i \in EventsOf(evs, task_id) : \A j \in EventsOf(evs, task_id) : j <= i]

\* C36: while the latest success of start_task for a task has no later
\* successful stop_task for it, every snapshot reports the task as active with
\* started_at the timestamp given to that start_task.
C36_StartedTaskIsActive ==
    \A task_id \in {t \in Range(TaskIdPool) : EventsOf(events, t) # {}} :
        LatestOf(events, task_id).kind = "start"
           => \A now \in SnapshotInstants :
              \A order \in IterOrders(ActiveIds(tz, events, day_start_offset_hours)) :
                 /\ task_id \in DOMAIN snapshot(tz, events, day_start_offset_hours,
                                                now, order).active_tasks
                 /\ snapshot(tz, events, day_start_offset_hours,
                             now, order).active_tasks[task_id].started_at
                       = LatestOf(events, task_id).timestamp

\* the total of the task over all days
TaskTotal(daily_task_totals, task_id) ==
    Grown(NoTotals, daily_task_totals, KeysOf(daily_task_totals, task_id))

\* C37: while the latest success of stop_task for a task has no later
\* successful start_task for it, every snapshot reports the task as not
\* active; and a successful stop_task(task, at) makes the task's day totals
\* grow by at - started_at, the length of the interval it closes.
C37_StoppedTaskIsIdle ==
    /\ [](\A task_id \in {t \in Range(TaskIdPool) : EventsOf(events, t) # {}} :
            LatestOf(events, task_id).kind = "stop"
               => \A now \in SnapshotInstants :
                  \A order \in IterOrders(ActiveIds(tz, events, day_start_offset_hours)) :
                     task_id \notin DOMAIN snapshot(tz, events, day_start_offset_hours,
                                                    now, order).active_tasks)
    /\ [][(result'.op = "stop_task" /\ result'.value = "ok")
            => TaskTotal(replayed(tz, events', day_start_offset_hours).daily_task_totals,
                         result'.task_id)
                 = TaskTotal(replayed(tz, events, day_start_offset_hours).daily_task_totals,
                             result'.task_id)
                   + (events'[Len(events')].timestamp - StartedAt(result'.task_id))]_vars

----------------------------------------------------------------------------
(* Properties of the dashboard's totals *)

OpenInSessions(evs, now) ==
    {rec.task_id : rec \in OpenSessions(ClosedSessions(evs).active, now)}

OpenInSnapshot(snap, now) ==
    {task_id \in DOMAIN snap.active_tasks : snap.active_tasks[task_id].started_at < now}

\* C38: for every log, now and day-start offset, the totals that
\* build_local_daily_task_totals makes of collect_sessions(ledger, now) are
\* the daily_task_totals of snapshot(now), and the tasks with an open session
\* in collect_sessions are the active tasks of the snapshot that started
\* before now.
C38_DashboardAgreesWithSnapshot ==
    \A now \in NowInstants :
        \A order \in IterOrders(ActiveIds(tz, events, day_start_offset_hours)) :
            /\ build_local_daily_task_totals(tz, collect_sessions(events, now)).daily_task_totals
                  = snapshot(tz, events, day_start_offset_hours, now, order).daily_task_totals
            /\ OpenInSessions(events, now)
                  = OpenInSnapshot(snapshot(tz, events, day_start_offset_hours, now, order), now)

----------------------------------------------------------------------------
(* Properties of the list of recent ledgers *)

\* the list as recent_ledgers reads it from the file
Stored(f) == recent_ledgers(f, MAX_RECENT_LEDGERS)

NoDuplicates(entries) ==
    \A i, j \in DOMAIN entries : entries[i] = entries[j] => i = j

\* C39: the stored list never holds a path twice nor more than 50 entries,
\* and after remember_ledger(path) it starts with the path, followed by the
\* other entries it held before in their order, as far as 50 entries go.
C39_RecentLedgers ==
    /\ [](/\ NoDuplicates(Stored(recent))
          /\ Len(Stored(recent)) <= MAX_RECENT_LEDGERS)
    /\ [][result'.op = "remember_ledger" /\ result'.value = "ok"
            => /\ Stored(recent') # <<>>
               /\ Head(Stored(recent')) = absolutize(result'.path)
               /\ Tail(Stored(recent'))
                     = truncate(retain(Stored(recent), absolutize(result'.path)),
                                MAX_RECENT_LEDGERS - 1)]_vars

====
